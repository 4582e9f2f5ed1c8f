--------------------------- MODULE PythonHandler ---------------------------
(***************************************************************************)
(* PythonHandler::HandleRequest (python_handler.cc) and the script of the  *)
(* repository, python-bin/database.py.  The interpreter is one of the      *)
(* process: each request initialises it, runs a script and finalises it,   *)
(* on whichever thread, without a lock.                                    *)
(***************************************************************************)
EXTENDS HandlerPool

\* substr(start + 1, end - start - 1); the length wraps when the last slash is
\* after the last point, and everything after the slash remains.
Script(uri) ==
  LET start == LastOf(uri, "/")
      end   == LastOf(uri, ".")
  IN  c_str(SubSeq(uri, start + 1, IF end > start THEN end - 1 ELSE Len(uri)))

PyScript(r) == Script(uri_decode(r.uri))

PyValid(r) ==
  /\ Decodes(r.uri)
  /\ LastOf(uri_decode(r.uri), "/") # 0 /\ LastOf(uri_decode(r.uri), ".") # 0
  /\ Parses(r.body)

\* The dictionary the script is called with: of a name that occurs twice the
\* last value stays.
PyKeys(r) == {c_str(decoded_body(r.body)[i].name) : i \in 1..Len(decoded_body(r.body))}

PyItem(r, key) ==
  LET pairs == decoded_body(r.body)
  IN  c_str(pairs[Max({i \in 1..Len(pairs) : c_str(pairs[i].name) = key})].value)

\* d['query'] of database.py.
PyStatement(r) == PyItem(r, <<"query">>)

PyBadRequest(t) ==
  /\ pc[t] = "python" /\ ~PyValid(Request(t))
  /\ Return(t, "bad request")
  /\ UNCHANGED <<mysqlVars, pythonVars, terminated, issued, told, failed>>

\* Py_Initialize does nothing when the interpreter is initialised; base_dir is
\* appended to sys.path in any case.
PyInitialize(t) ==
  /\ pc[t] = "python" /\ PyValid(Request(t))
  /\ interp' = IF interp.on THEN [interp EXCEPT !.paths = @ + 1]
                            ELSE [on |-> TRUE, starter |-> {t}, paths |-> 1]
  /\ overlapped' = (overlapped \/ \E u \in Threads \ {t} : Inside(u))
  /\ pc' = [pc EXCEPT ![t] = "py_import"]
  /\ UNCHANGED <<frame, mysqlVars, terminated, issued, told, failed>>

\* PyImport_Import, PyObject_GetAttrString, PyCallable_Check, the arguments.
PyImport(t) ==
  /\ pc[t] = "py_import" /\ interp.on
  /\ LET script == PyScript(Request(t))
     IN  pc' = [pc EXCEPT ![t] =
                  IF script \in DOMAIN Scripts /\ Scripts[script] = "database"
                    THEN "py_connect" ELSE "py_release"]
  /\ UNCHANGED <<frame, mysqlVars, pythonVars, terminated, issued, told, failed>>

\* PyObject_CallObject of a script that returns no string: std::string is
\* constructed from the null pointer of PyString_AsString.
PyNoString(t) ==
  /\ pc[t] = "py_import" /\ interp.on
  /\ PyScript(Request(t)) \in DOMAIN Scripts
  /\ Scripts[PyScript(Request(t))] = "number"
  /\ Terminate
  /\ UNCHANGED <<pc, frame, mysqlVars, pythonVars, issued, told, failed>>

\* mysql.connector.connect, the first statement of PythonApp, raises.
PyConnectRaises(t) ==
  /\ pc[t] = "py_connect" /\ interp.on /\ Full
  /\ pc' = [pc EXCEPT ![t] = "py_release"]
  /\ UNCHANGED <<frame, mysqlVars, pythonVars, terminated, issued, told, failed>>

PyConnect(t) ==
  /\ pc[t] = "py_connect" /\ interp.on
  /\ Connect(t, IF <<"query">> \in PyKeys(Request(t)) THEN "py_execute"
                                                      ELSE "py_release")
  /\ UNCHANGED <<table, pythonVars, terminated, issued, told, failed>>

\* cursor.execute; the error of a wrong statement is caught by the script.
PyExecute(t) ==
  /\ pc[t] = "py_execute" /\ interp.on
  /\ LET stmt == PyStatement(Request(t))
     IN  frame' = [frame EXCEPT
           ![t].page = CASE stmt \in Queries -> "rows"
                         [] stmt \in Updates -> "done"
                         [] OTHER -> "error",
           ![t].seen = table]
  /\ pc' = [pc EXCEPT ![t] = "py_commit"]
  /\ UNCHANGED <<mysqlVars, pythonVars, terminated, issued, told, failed>>

\* A result that has not two columns raises a ValueError, which is not caught.
PyExecuteRaises(t) ==
  /\ pc[t] = "py_execute" /\ interp.on
  /\ PyStatement(Request(t)) \notin Queries \cup Updates
  /\ pc' = [pc EXCEPT ![t] = "py_release"]
  /\ UNCHANGED <<frame, mysqlVars, pythonVars, terminated, issued, told, failed>>

\* Mutant: the script closes its connection without a commit.
PyCommit_NoCommit(t) ==
  /\ pc[t] = "py_commit" /\ interp.on
  /\ sessions' = sessions \ frame[t].conn
  /\ frame' = [frame EXCEPT ![t].conn = {}]
  /\ pc' = [pc EXCEPT ![t] = "py_release"]
  /\ UNCHANGED <<table, pythonVars, terminated, issued, told, failed>>

\* conn.commit() and conn.close(), and the result as the response's body.
PyCommit(t) ==
  /\ pc[t] = "py_commit" /\ interp.on
  /\ table' = IF frame[t].page = "done" THEN table \cup {frame[t].id} ELSE table
  /\ sessions' = sessions \ frame[t].conn
  /\ frame' = [frame EXCEPT ![t].conn = {}]
  /\ pc' = [pc EXCEPT ![t] = "py_release"]
  /\ UNCHANGED <<pythonVars, terminated, issued, told, failed>>

\* Mutant: a request that failed does not finalise the interpreter.
PyRelease_OnSuccess(t) ==
  /\ pc[t] = "py_release" /\ interp.on
  /\ interp' = IF frame[t].page = "none" THEN interp
                                         ELSE [on |-> FALSE, starter |-> {}, paths |-> 0]
  /\ sessions' = sessions \ frame[t].conn
  /\ told' = IF frame[t].page = "done" THEN told \cup {frame[t].id} ELSE told
  /\ Return(t, frame[t].page)
  /\ UNCHANGED <<table, overlapped, terminated, issued, failed>>

\* The Py_XDECREFs, Py_Finalize, with which a connection that a raised
\* exception has kept goes, and the return of ok or, without a page,
\* handle_fail.
PyRelease(t) ==
  /\ pc[t] = "py_release" /\ interp.on
  /\ interp' = [on |-> FALSE, starter |-> {}, paths |-> 0]
  /\ sessions' = sessions \ frame[t].conn
  /\ told' = IF frame[t].page = "done" THEN told \cup {frame[t].id} ELSE told
  /\ Return(t, frame[t].page)
  /\ UNCHANGED <<table, overlapped, terminated, issued, failed>>

(***************************************************************************)
(* Undefined behaviour, which may end the process or show nothing: two     *)
(* threads in one interpreter without its lock, a call after another       *)
(* thread's Py_Finalize, and, in every release, references that            *)
(* HandleRequest does not own (sys.path is borrowed, the dictionary was    *)
(* stolen by PyTuple_SetItem).                                             *)
(***************************************************************************)
PyFault(t) ==
  /\ Inside(t) /\ (overlapped \/ pc[t] = "py_release")
  /\ Terminate
  /\ UNCHANGED <<pc, frame, mysqlVars, pythonVars, issued, told, failed>>

PyStep(t) ==
  \/ PyBadRequest(t) \/ PyInitialize(t) \/ PyImport(t) \/ PyNoString(t)
  \/ PyConnectRaises(t) \/ PyConnect(t) \/ PyExecute(t) \/ PyExecuteRaises(t)
  \/ PyCommit(t) \/ PyRelease(t) \/ PyFault(t)
=============================================================================
