----------------------------- MODULE DbHandler -----------------------------
(***************************************************************************)
(* DbHandler (db_handler.h/.cc): each request opens a connection to MySQL, *)
(* runs the one statement of its form and closes the connection.           *)
(* QueryTable and UpdateTable differ in the statement they run only; both  *)
(* answer an SQLException with a page of status 200.                       *)
(***************************************************************************)
EXTENDS HandlerPool

\* Only the first pair of the body counts.
DbName(r) == decoded_body(r.body)[1].name
DbStatement(r) == decoded_body(r.body)[1].value

DbValid(r) == Parses(r.body) /\ DbName(r) \in {<<"query">>, <<"update">>}

DbBadRequest(t) ==
  /\ pc[t] = "db" /\ ~DbValid(Request(t))
  /\ Return(t, "bad request")
  /\ UNCHANGED <<mysqlVars, pythonVars, terminated, issued, told, failed>>

\* Mutant: the connection is made outside the try block.
DbConnectThrows_Uncaught(t) ==
  /\ pc[t] = "db" /\ DbValid(Request(t)) /\ Full
  /\ Terminate
  /\ UNCHANGED <<pc, frame, mysqlVars, pythonVars, issued, told, failed>>

\* driver->connect throws an SQLException, which is answered.
DbConnectThrows(t) ==
  /\ pc[t] = "db" /\ DbValid(Request(t)) /\ Full
  /\ Return(t, "error")
  /\ UNCHANGED <<mysqlVars, pythonVars, terminated, issued, told, failed>>

DbConnect(t) ==
  /\ pc[t] = "db" /\ DbValid(Request(t))
  /\ Connect(t, "db_execute")
  /\ UNCHANGED <<table, pythonVars, terminated, issued, told, failed>>

\* executeQuery, and the loop over the rows.
QueryTable(t) ==
  /\ pc[t] = "db_execute"
  /\ DbName(Request(t)) = <<"query">> /\ DbStatement(Request(t)) \in Queries
  /\ frame' = [frame EXCEPT ![t].page = "rows", ![t].seen = table]
  /\ pc' = [pc EXCEPT ![t] = "db_delete"]
  /\ UNCHANGED <<mysqlVars, pythonVars, terminated, issued, told, failed>>

\* executeUpdate; the connection commits every statement.
UpdateTable(t) ==
  /\ pc[t] = "db_execute"
  /\ DbName(Request(t)) = <<"update">> /\ DbStatement(Request(t)) \in Updates
  /\ table' = table \cup {frame[t].id}
  /\ frame' = [frame EXCEPT ![t].page = "done"]
  /\ pc' = [pc EXCEPT ![t] = "db_delete"]
  /\ UNCHANGED <<sessions, pythonVars, terminated, issued, told, failed>>

\* The statement can be run the way the form's name says.
DbRuns(r) ==
  \/ DbName(r) = <<"query">> /\ DbStatement(r) \in Queries
  \/ DbName(r) = <<"update">> /\ DbStatement(r) \in Updates

\* Any other statement throws: nothing is deleted, and the session stays open.
\* executeQuery of an update may throw after it has been done.
DbStatementThrows(t) ==
  /\ pc[t] = "db_execute" /\ ~DbRuns(Request(t))
  /\ \/ table' = table
     \/ DbStatement(Request(t)) \in Updates /\ table' = table \cup {frame[t].id}
  /\ failed' = TRUE
  /\ Return(t, "error")
  /\ UNCHANGED <<sessions, pythonVars, terminated, issued, told>>

\* Mutant: the connection is not deleted.
DbDelete_KeepsConnection(t) ==
  /\ pc[t] = "db_delete"
  /\ told' = IF frame[t].page = "done" THEN told \cup {frame[t].id} ELSE told
  /\ Return(t, frame[t].page)
  /\ UNCHANGED <<mysqlVars, pythonVars, terminated, issued, failed>>

\* The deletes, and the reply.
DbDelete(t) ==
  /\ pc[t] = "db_delete"
  /\ sessions' = sessions \ frame[t].conn
  /\ told' = IF frame[t].page = "done" THEN told \cup {frame[t].id} ELSE told
  /\ Return(t, frame[t].page)
  /\ UNCHANGED <<table, pythonVars, terminated, issued, failed>>

DbStep(t) ==
  \/ DbBadRequest(t) \/ DbConnectThrows(t) \/ DbConnect(t)
  \/ QueryTable(t) \/ UpdateTable(t) \/ DbStatementThrows(t) \/ DbDelete(t)
=============================================================================
