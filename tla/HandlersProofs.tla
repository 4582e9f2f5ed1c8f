--------------------------- MODULE HandlersProofs ---------------------------
(***************************************************************************)
(* Proofs about Handlers, for any number of threads, sessions and requests *)
(* and any statements, scripts and files.                                  *)
(***************************************************************************)
EXTENDS Handlers, FoldLemmas, FiniteSetTheorems, TLAPS

EnoughConnections == Cardinality(Threads) <= Cardinality(Connections)

(***************************************************************************)
(* What the inductive invariant says of one thread at step p with frame f, *)
(* given the updates told and in the table and whether a statement failed. *)
(***************************************************************************)
Good(f, p, told_, table_, failed_) ==
  /\ p \in {"db"} \cup DbSteps => f.request.handler = "db"
  /\ p \in {"python"} \cup PythonSteps => f.request.handler = "python"
  /\ p = "file" => f.request.handler = "file"
  /\ p \in {"db", "python", "file", "db_execute", "py_import", "py_connect", "py_execute"}
       => f.page = "none"
  /\ f.page = "bad request" => Unreadable(f.request)
  /\ p \in {"idle", "db", "python", "file", "py_import", "py_connect"} => f.conn = {}
  /\ \A c, d \in f.conn : c = d
  /\ f.floor \subseteq told_
  /\ p \in {"db_delete", "py_release"} /\ f.page = "done" => f.id \in table_
  /\ f.page = "rows" => f.floor \subseteq f.seen
  /\ EnoughConnections /\ RightStatement(f.request) /\ f.page = "error" => failed_

AllGood == \A t \in Threads : Good(frame[t], pc[t], told, table, failed)

\* IndInv is what it says of each thread, and what it says of the rest.
LEMMA IndInvParts ==
  IndInv <=> TypeOK /\ AllGood /\ SessionsHeld /\ told \subseteq table /\ OwnInterpreter
<1> USE DEF RunsItsHandler, NoPageYet, RefusesUnreadable, OneConnection, ToldInTable, ReadsAnswered,
            ServedUntilFailure, Request, EnoughConnections
<1>1. IndInv => AllGood /\ told \subseteq table
  BY DEF IndInv, AllGood, Good
<1>2. AllGood /\ told \subseteq table
        => /\ RunsItsHandler /\ NoPageYet /\ RefusesUnreadable /\ OneConnection
           /\ ToldInTable /\ ReadsAnswered /\ ServedUntilFailure
  BY DEF AllGood, Good
<1> QED
  BY <1>1, <1>2 DEF IndInv

\* The same in the next state.
LEMMA IndInvPartsNext ==
  ASSUME TypeOK', AllGood', SessionsHeld', (told \subseteq table)', OwnInterpreter'
  PROVE  IndInv'
BY DEF RunsItsHandler, NoPageYet, RefusesUnreadable, OneConnection, ToldInTable, ReadsAnswered,
       ServedUntilFailure, Request, EnoughConnections, IndInv, AllGood, Good

\* What is good for a thread stays so when updates and failures are added.
LEMMA GoodGrows ==
  ASSUME NEW f, NEW p, NEW told1, NEW told2, NEW table1, NEW table2,
         NEW failed1, NEW failed2,
         told1 \subseteq told2, table1 \subseteq table2, failed1 => failed2,
         Good(f, p, told1, table1, failed1)
  PROVE  Good(f, p, told2, table2, failed2)
BY DEF Good

\* What is sent of a file that exists.
LEMMA SentOfFile ==
  ASSUME NEW path, OnDisk(path) \in Files
  PROVE  Sent(path) \in SentType
<1>1. \A e : extension2type(e) \in MediaTypes
  BY DEF extension2type, MediaTypes
<1> QED
  BY <1>1 DEF Sent, SentType

LEMMA FreshType ==
  ASSUME NEW r \in Requests \cup {NoRequest}, NEW id \in Ids, told \subseteq Ids
  PROVE  Fresh(r, id) \in FrameType
BY DEF Fresh, FrameType, Pages, SentType

\* No thread has begun.
LEMMA InitInv == Init => IndInv
<1> SUFFICES ASSUME Init PROVE IndInv
  OBVIOUS
<1>1. told = {} /\ Fresh(NoRequest, 0) \in FrameType
  <2>1. 0 \in Ids /\ told = {}
    BY BoundsAssumption DEF Init, Ids
  <2> QED BY <2>1, FreshType
<1>2. TypeOK
  <2>1. pc \in [Threads -> Steps] /\ frame \in [Threads -> FrameType]
    BY <1>1 DEF Init, Steps
  <2>2. interp \in [on: BOOLEAN, starter: SUBSET Threads, paths: Nat]
    BY DEF Init
  <2>3. issued \in 0..MaxRequests
    BY BoundsAssumption DEF Init
  <2> QED BY <2>1, <2>2, <2>3 DEF Init, TypeOK
<1>3. AllGood
  BY DEF Init, AllGood, Good, Fresh, DbSteps, PythonSteps
<1>4. SessionsHeld /\ told \subseteq table /\ OwnInterpreter
  BY DEF Init, SessionsHeld, OwnInterpreter, Inside, PythonSteps
<1> QED
  BY <1>2, <1>3, <1>4, IndInvParts

-----------------------------------------------------------------------------
(***************************************************************************)
(* What a step of thread t does to the frames.                             *)
(***************************************************************************)
StepOK(t) ==
  /\ TypeOK'
  /\ \A u \in Threads \ {t} : frame'[u] = frame[u] /\ pc'[u] = pc[u]
  /\ Good(frame'[t], pc'[t], told', table', failed')
  /\ told \subseteq told' /\ table \subseteq table' /\ (failed => failed')
  /\ told' \subseteq table'

LEMMA ArriveOK ==
  ASSUME IndInv, NEW t \in Threads, NEW r \in Requests, Arrive(t, r)
  PROVE  StepOK(t)
<1>1. TypeOK /\ told \subseteq table
  BY IndInvParts
<1>2. Fresh(r, issued + 1) \in FrameType
  BY <1>1, FreshType, BoundsAssumption DEF Arrive, TypeOK, Ids
<1>3. r.handler \in {"db", "python", "file"}
  BY RequestsAssumption
<1>4. frame' = [frame EXCEPT ![t] = Fresh(r, issued + 1)]
      /\ pc' = [pc EXCEPT ![t] = r.handler] /\ issued' = issued + 1 /\ issued < MaxRequests
      /\ UNCHANGED <<sessions, table, interp, overlapped, terminated, told, failed>>
  BY DEF Arrive, mysqlVars, pythonVars
<1>5. TypeOK'
  BY <1>1, <1>2, <1>3, <1>4, BoundsAssumption DEF TypeOK, Steps
<1>6. frame'[t] = Fresh(r, issued + 1) /\ pc'[t] = r.handler
  BY <1>1, <1>4 DEF TypeOK
<1>7. Good(frame'[t], pc'[t], told', table', failed')
  <2>1. PICK f : f = frame'[t]
    OBVIOUS
  <2>2. f.request = r /\ f.page = "none" /\ f.conn = {} /\ f.floor = told
    BY <1>6, <2>1 DEF Fresh
  <2>3. Good(f, r.handler, told, table', failed')
    BY <1>3, <2>2 DEF Good, DbSteps, PythonSteps
  <2> QED BY <1>4, <1>6, <2>1, <2>3
<1> QED
  BY <1>1, <1>4, <1>5, <1>7 DEF StepOK, TypeOK

\* A step of DbHandler.
LEMMA DbOK ==
  ASSUME IndInv, NEW t \in Threads, DbStep(t), ~DbConnectThrows(t)
  PROVE  StepOK(t)
<1> USE DEF mysqlVars, pythonVars, Return, Connect, Request
<1>1. /\ TypeOK /\ told \subseteq table
      /\ Good(frame[t], pc[t], told, table, failed)
  BY IndInvParts DEF AllGood
<1>2. /\ frame[t] \in FrameType /\ frame \in [Threads -> FrameType]
      /\ frame[t].id \in Ids /\ frame[t].conn \subseteq Connections
      /\ pc \in [Threads -> Steps]
      /\ table \subseteq Ids /\ told \subseteq Ids /\ sessions \subseteq Connections
  BY <1>1 DEF TypeOK, FrameType
<1>3. CASE DbBadRequest(t)
  <2>1. TypeOK'
    BY <1>1, <1>2, <1>3 DEF DbBadRequest, TypeOK, FrameType, Pages, Steps
  <2>2. Good(frame'[t], pc'[t], told', table', failed')
    BY <1>1, <1>2, <1>3 DEF DbBadRequest, Good, Unreadable, FrameType, DbSteps, PythonSteps
  <2> QED BY <1>1, <1>2, <1>3, <2>1, <2>2 DEF StepOK, DbBadRequest
<1>4. CASE DbConnect(t)
  <2>1. TypeOK'
    BY <1>1, <1>2, <1>4 DEF DbConnect, TypeOK, FrameType, Steps, DbSteps
  <2>2. Good(frame'[t], pc'[t], told', table', failed')
    <3>1. PICK f, g : f = frame[t] /\ g = frame'[t]
      OBVIOUS
    <3>2. /\ g.request = f.request /\ g.page = f.page /\ g.floor = f.floor
          /\ \E c \in Connections : g.conn = {c}
      BY <1>2, <1>4, <3>1 DEF DbConnect, FrameType
    <3>3. Good(f, "db", told, table, failed) /\ pc'[t] = "db_execute"
      BY <1>1, <1>2, <1>4, <3>1 DEF DbConnect
    <3>4. Good(g, "db_execute", told, table, failed)
      BY <3>2, <3>3 DEF Good, DbSteps, PythonSteps
    <3> QED BY <1>4, <3>1, <3>3, <3>4 DEF DbConnect
  <2> QED BY <1>1, <1>2, <1>4, <2>1, <2>2 DEF StepOK, DbConnect
<1>5. CASE QueryTable(t)
  <2>1. TypeOK'
    BY <1>1, <1>2, <1>5 DEF QueryTable, TypeOK, FrameType, Pages, Steps, DbSteps
  <2>2. Good(frame'[t], pc'[t], told', table', failed')
    BY <1>1, <1>2, <1>5 DEF QueryTable, Good, FrameType, DbSteps, PythonSteps
  <2> QED BY <1>1, <1>2, <1>5, <2>1, <2>2 DEF StepOK, QueryTable
<1>6. CASE UpdateTable(t)
  <2>1. TypeOK'
    <3>1. frame' \in [Threads -> FrameType] /\ pc' \in [Threads -> Steps]
      BY <1>1, <1>2, <1>6 DEF UpdateTable, FrameType, Pages, Steps, DbSteps, PythonSteps
    <3>2. sessions' \subseteq Connections /\ table' \subseteq Ids /\ told' \subseteq Ids
      BY <1>2, <1>6 DEF UpdateTable
    <3>3. interp' \in [on: BOOLEAN, starter: SUBSET Threads, paths: Nat]
      BY <1>1, <1>6 DEF UpdateTable, TypeOK
    <3>4. terminated' \in BOOLEAN /\ failed' \in BOOLEAN /\ overlapped' \in BOOLEAN
      BY <1>1, <1>6 DEF UpdateTable, TypeOK
    <3>5. issued' \in 0..MaxRequests
      BY <1>1, <1>6 DEF UpdateTable, TypeOK
    <3> QED BY <3>1, <3>2, <3>3, <3>4, <3>5 DEF TypeOK
  <2>2. Good(frame'[t], pc'[t], told', table', failed')
    BY <1>1, <1>2, <1>6 DEF UpdateTable, Good, FrameType, DbSteps, PythonSteps, RightStatement
  <2> QED BY <1>1, <1>2, <1>6, <2>1, <2>2 DEF StepOK, UpdateTable
<1>7. CASE DbStatementThrows(t)
  <2>1. TypeOK'
    <3>1. frame' \in [Threads -> FrameType] /\ pc' \in [Threads -> Steps]
      BY <1>1, <1>2, <1>7 DEF DbStatementThrows, FrameType, Pages, Steps, DbSteps, PythonSteps
    <3>2. sessions' \subseteq Connections /\ table' \subseteq Ids /\ told' \subseteq Ids
      BY <1>2, <1>7 DEF DbStatementThrows
    <3>3. interp' \in [on: BOOLEAN, starter: SUBSET Threads, paths: Nat]
      BY <1>1, <1>7 DEF DbStatementThrows, TypeOK
    <3>4. terminated' \in BOOLEAN /\ failed' \in BOOLEAN /\ overlapped' \in BOOLEAN
      BY <1>1, <1>7 DEF DbStatementThrows, TypeOK
    <3>5. issued' \in 0..MaxRequests
      BY <1>1, <1>7 DEF DbStatementThrows, TypeOK
    <3> QED BY <3>1, <3>2, <3>3, <3>4, <3>5 DEF TypeOK
  <2>2. Good(frame'[t], pc'[t], told', table', failed')
    BY <1>1, <1>2, <1>7 DEF DbStatementThrows, Good, FrameType, DbSteps, PythonSteps, RightStatement
  <2> QED BY <1>1, <1>2, <1>7, <2>1, <2>2 DEF StepOK, DbStatementThrows
<1>8. CASE DbDelete(t)
  <2>1. TypeOK'
    <3>1. frame' \in [Threads -> FrameType] /\ pc' \in [Threads -> Steps]
      BY <1>1, <1>2, <1>8 DEF DbDelete, FrameType, Pages, Steps, DbSteps, PythonSteps
    <3>2. sessions' \subseteq Connections /\ table' \subseteq Ids /\ told' \subseteq Ids
      BY <1>2, <1>8 DEF DbDelete
    <3>3. interp' \in [on: BOOLEAN, starter: SUBSET Threads, paths: Nat]
      BY <1>1, <1>8 DEF DbDelete, TypeOK
    <3>4. terminated' \in BOOLEAN /\ failed' \in BOOLEAN /\ overlapped' \in BOOLEAN
      BY <1>1, <1>8 DEF DbDelete, TypeOK
    <3>5. issued' \in 0..MaxRequests
      BY <1>1, <1>8 DEF DbDelete, TypeOK
    <3> QED BY <3>1, <3>2, <3>3, <3>4, <3>5 DEF TypeOK
  <2>2. Good(frame'[t], pc'[t], told', table', failed')
    BY <1>1, <1>2, <1>8 DEF DbDelete, Good, FrameType, DbSteps, PythonSteps, RightStatement
  <2>3. told' \in {told, told \cup {frame[t].id}} /\ told' \subseteq table' /\ table' = table
    BY <1>1, <1>8 DEF DbDelete, Good
  <2>4. \A u \in Threads \ {t} : frame'[u] = frame[u] /\ pc'[u] = pc[u]
    BY <1>2, <1>8 DEF DbDelete
  <2>5. failed' = failed
    BY <1>8 DEF DbDelete
  <2> QED BY <2>1, <2>2, <2>3, <2>4, <2>5 DEF StepOK
<1> QED
  BY <1>3, <1>4, <1>5, <1>6, <1>7, <1>8 DEF DbStep

\* A step of PythonHandler.
LEMMA PyOK ==
  ASSUME IndInv, NEW t \in Threads, PyStep(t)
  PROVE  StepOK(t)
<1> USE DEF mysqlVars, pythonVars, Return, Connect, Request, Terminate, Inside
<1>1. /\ TypeOK /\ told \subseteq table
      /\ Good(frame[t], pc[t], told, table, failed)
  BY IndInvParts DEF AllGood
<1>2. /\ frame[t] \in FrameType /\ frame \in [Threads -> FrameType]
      /\ frame[t].id \in Ids /\ frame[t].conn \subseteq Connections
      /\ pc \in [Threads -> Steps]
      /\ table \subseteq Ids /\ told \subseteq Ids /\ sessions \subseteq Connections
  BY <1>1 DEF TypeOK, FrameType
<1>3. CASE PyBadRequest(t)
  <2>1. TypeOK'
    BY <1>1, <1>2, <1>3 DEF PyBadRequest, TypeOK, FrameType, Pages, Steps, DbSteps, PythonSteps, Ids
  <2>2. Good(frame'[t], pc'[t], told', table', failed')
    BY <1>1, <1>2, <1>3 DEF PyBadRequest, Good, Unreadable, FrameType, DbSteps, PythonSteps, RightStatement
  <2> QED BY <1>1, <1>2, <1>3, <2>1, <2>2 DEF StepOK, PyBadRequest
<1>4. CASE PyInitialize(t)
  <2>1. TypeOK'
    <3>1. frame' \in [Threads -> FrameType] /\ pc' \in [Threads -> Steps]
      BY <1>1, <1>2, <1>4 DEF PyInitialize, FrameType, Pages, Steps, DbSteps, PythonSteps
    <3>2. sessions' \subseteq Connections /\ table' \subseteq Ids /\ told' \subseteq Ids
      BY <1>2, <1>4 DEF PyInitialize
    <3>3. interp' \in [on: BOOLEAN, starter: SUBSET Threads, paths: Nat]
      BY <1>1, <1>4 DEF PyInitialize, TypeOK
    <3>4. terminated' \in BOOLEAN /\ failed' \in BOOLEAN /\ overlapped' \in BOOLEAN
      BY <1>1, <1>4 DEF PyInitialize, TypeOK
    <3>5. issued' \in 0..MaxRequests
      BY <1>1, <1>4 DEF PyInitialize, TypeOK
    <3> QED BY <3>1, <3>2, <3>3, <3>4, <3>5 DEF TypeOK
  <2>2. Good(frame'[t], pc'[t], told', table', failed')
    BY <1>1, <1>2, <1>4 DEF PyInitialize, Good, FrameType, DbSteps, PythonSteps, RightStatement
  <2> QED BY <1>1, <1>2, <1>4, <2>1, <2>2 DEF StepOK, PyInitialize
<1>5. CASE PyImport(t)
  <2>1. TypeOK'
    BY <1>1, <1>2, <1>5 DEF PyImport, TypeOK, FrameType, Pages, Steps, DbSteps, PythonSteps, Ids
  <2>2. Good(frame'[t], pc'[t], told', table', failed')
    BY <1>1, <1>2, <1>5 DEF PyImport, Good, FrameType, DbSteps, PythonSteps, RightStatement
  <2> QED BY <1>1, <1>2, <1>5, <2>1, <2>2 DEF StepOK, PyImport
<1>6. CASE PyNoString(t)
  <2>1. TypeOK'
    BY <1>1, <1>2, <1>6 DEF PyNoString, TypeOK, FrameType, Pages, Steps, DbSteps, PythonSteps, Ids
  <2>2. Good(frame'[t], pc'[t], told', table', failed')
    BY <1>1, <1>2, <1>6 DEF PyNoString, Good, FrameType, DbSteps, PythonSteps, RightStatement
  <2> QED BY <1>1, <1>2, <1>6, <2>1, <2>2 DEF StepOK, PyNoString
<1>7. CASE PyConnectRaises(t)
  <2>1. TypeOK'
    BY <1>1, <1>2, <1>7 DEF PyConnectRaises, TypeOK, FrameType, Pages, Steps, DbSteps, PythonSteps, Ids
  <2>2. Good(frame'[t], pc'[t], told', table', failed')
    BY <1>1, <1>2, <1>7 DEF PyConnectRaises, Good, FrameType, DbSteps, PythonSteps, RightStatement
  <2> QED BY <1>1, <1>2, <1>7, <2>1, <2>2 DEF StepOK, PyConnectRaises
<1>8. CASE PyConnect(t)
  <2>1. TypeOK'
    <3>1. frame' \in [Threads -> FrameType] /\ pc' \in [Threads -> Steps]
      <4>1. frame' \in [Threads -> FrameType]
        BY <1>1, <1>2, <1>8 DEF PyConnect, FrameType
      <4>2. PICK p \in {"py_execute", "py_release"} : pc' = [pc EXCEPT ![t] = p]
        BY <1>8 DEF PyConnect
      <4>3. p \in Steps
        BY <4>2 DEF Steps, PythonSteps
      <4>4. pc' \in [Threads -> Steps]
        BY <1>2, <4>2, <4>3
      <4> QED BY <4>1, <4>4
    <3>2. sessions' \subseteq Connections /\ table' \subseteq Ids /\ told' \subseteq Ids
      BY <1>2, <1>8 DEF PyConnect
    <3>3. interp' \in [on: BOOLEAN, starter: SUBSET Threads, paths: Nat]
      BY <1>1, <1>8 DEF PyConnect, TypeOK
    <3>4. terminated' \in BOOLEAN /\ failed' \in BOOLEAN /\ overlapped' \in BOOLEAN
      BY <1>1, <1>8 DEF PyConnect, TypeOK
    <3>5. issued' \in 0..MaxRequests
      BY <1>1, <1>8 DEF PyConnect, TypeOK
    <3> QED BY <3>1, <3>2, <3>3, <3>4, <3>5 DEF TypeOK
  <2>2. Good(frame'[t], pc'[t], told', table', failed')
    <3>1. PICK f, g : f = frame[t] /\ g = frame'[t]
      OBVIOUS
    <3>2. /\ g.request = f.request /\ g.page = f.page /\ g.floor = f.floor
          /\ \E c \in Connections : g.conn = {c}
      BY <1>2, <1>8, <3>1 DEF PyConnect, FrameType
    <3>3. PICK p : p = pc'[t]
      OBVIOUS
    <3>4. Good(f, "py_connect", told, table, failed) /\ p \in {"py_execute", "py_release"}
      BY <1>1, <1>2, <1>8, <3>1, <3>3 DEF PyConnect
    <3>5. Good(g, p, told, table, failed)
      BY <3>2, <3>4 DEF Good, DbSteps, PythonSteps
    <3> QED BY <1>8, <3>1, <3>3, <3>5 DEF PyConnect
  <2> QED BY <1>1, <1>2, <1>8, <2>1, <2>2 DEF StepOK, PyConnect
<1>9. CASE PyExecute(t)
  <2>1. TypeOK'
    BY <1>1, <1>2, <1>9 DEF PyExecute, TypeOK, FrameType, Pages, Steps, DbSteps, PythonSteps, Ids
  <2>2. Good(frame'[t], pc'[t], told', table', failed')
    BY <1>1, <1>2, <1>9 DEF PyExecute, Good, FrameType, DbSteps, PythonSteps, RightStatement
  <2> QED BY <1>1, <1>2, <1>9, <2>1, <2>2 DEF StepOK, PyExecute
<1>10. CASE PyCommit(t)
  <2>1. TypeOK'
    <3>1. frame' \in [Threads -> FrameType] /\ pc' \in [Threads -> Steps]
      BY <1>1, <1>2, <1>10 DEF PyCommit, FrameType, Pages, Steps, DbSteps, PythonSteps
    <3>2. sessions' \subseteq Connections /\ table' \subseteq Ids /\ told' \subseteq Ids
      BY <1>2, <1>10 DEF PyCommit
    <3>3. interp' \in [on: BOOLEAN, starter: SUBSET Threads, paths: Nat]
      BY <1>1, <1>10 DEF PyCommit, TypeOK
    <3>4. terminated' \in BOOLEAN /\ failed' \in BOOLEAN /\ overlapped' \in BOOLEAN
      BY <1>1, <1>10 DEF PyCommit, TypeOK
    <3>5. issued' \in 0..MaxRequests
      BY <1>1, <1>10 DEF PyCommit, TypeOK
    <3> QED BY <3>1, <3>2, <3>3, <3>4, <3>5 DEF TypeOK
  <2>2. Good(frame'[t], pc'[t], told', table', failed')
    BY <1>1, <1>2, <1>10 DEF PyCommit, Good, FrameType, DbSteps, PythonSteps, RightStatement
  <2> QED BY <1>1, <1>2, <1>10, <2>1, <2>2 DEF StepOK, PyCommit
<1>11. CASE PyRelease(t)
  <2>1. TypeOK'
    <3>1. frame' \in [Threads -> FrameType] /\ pc' \in [Threads -> Steps]
      BY <1>1, <1>2, <1>11 DEF PyRelease, FrameType, Pages, Steps, DbSteps, PythonSteps
    <3>2. sessions' \subseteq Connections /\ table' \subseteq Ids /\ told' \subseteq Ids
      BY <1>2, <1>11 DEF PyRelease
    <3>3. interp' \in [on: BOOLEAN, starter: SUBSET Threads, paths: Nat]
      BY <1>1, <1>11 DEF PyRelease, TypeOK
    <3>4. terminated' \in BOOLEAN /\ failed' \in BOOLEAN /\ overlapped' \in BOOLEAN
      BY <1>1, <1>11 DEF PyRelease, TypeOK
    <3>5. issued' \in 0..MaxRequests
      BY <1>1, <1>11 DEF PyRelease, TypeOK
    <3> QED BY <3>1, <3>2, <3>3, <3>4, <3>5 DEF TypeOK
  <2>2. Good(frame'[t], pc'[t], told', table', failed')
    BY <1>1, <1>2, <1>11 DEF PyRelease, Good, FrameType, DbSteps, PythonSteps, RightStatement
  <2>3. told' \in {told, told \cup {frame[t].id}} /\ told' \subseteq table' /\ table' = table
    BY <1>1, <1>11 DEF PyRelease, Good
  <2>4. \A u \in Threads \ {t} : frame'[u] = frame[u] /\ pc'[u] = pc[u]
    BY <1>2, <1>11 DEF PyRelease
  <2>5. failed' = failed
    BY <1>11 DEF PyRelease
  <2> QED BY <2>1, <2>2, <2>3, <2>4, <2>5 DEF StepOK
<1>12. CASE PyFault(t)
  <2>1. TypeOK'
    BY <1>1, <1>2, <1>12 DEF PyFault, TypeOK, FrameType, Pages, Steps, DbSteps, PythonSteps, Ids
  <2>2. Good(frame'[t], pc'[t], told', table', failed')
    BY <1>1, <1>2, <1>12 DEF PyFault, Good, FrameType, DbSteps, PythonSteps, RightStatement
  <2> QED BY <1>1, <1>2, <1>12, <2>1, <2>2 DEF StepOK, PyFault
<1>13. CASE PyExecuteRaises(t)
  <2>1. TypeOK'
    BY <1>1, <1>2, <1>13 DEF PyExecuteRaises, TypeOK, Steps, DbSteps, PythonSteps
  <2>2. Good(frame'[t], pc'[t], told', table', failed')
    BY <1>1, <1>2, <1>13 DEF PyExecuteRaises, Good, FrameType, DbSteps, PythonSteps, RightStatement
  <2> QED BY <1>1, <1>2, <1>13, <2>1, <2>2 DEF StepOK, PyExecuteRaises
<1> QED
  BY <1>3, <1>4, <1>5, <1>6, <1>7, <1>8, <1>9, <1>10, <1>11, <1>12, <1>13 DEF PyStep

\* A step of StaticFileHandler.
LEMMA FileOK ==
  ASSUME IndInv, NEW t \in Threads, FileStep(t)
  PROVE  StepOK(t)
<1> USE DEF mysqlVars, pythonVars, Return, Request, Terminate
<1>1. /\ TypeOK /\ told \subseteq table
      /\ Good(frame[t], pc[t], told, table, failed)
  BY IndInvParts DEF AllGood
<1>2. /\ frame[t] \in FrameType /\ frame \in [Threads -> FrameType]
      /\ frame[t].id \in Ids /\ frame[t].conn \subseteq Connections
      /\ pc \in [Threads -> Steps]
      /\ table \subseteq Ids /\ told \subseteq Ids /\ sessions \subseteq Connections
  BY <1>1 DEF TypeOK, FrameType
<1>3. CASE FileBadRequest(t)
  <2>1. TypeOK'
    BY <1>1, <1>2, <1>3 DEF FileBadRequest, TypeOK, FrameType, Pages, Steps, DbSteps, PythonSteps, Ids
  <2>2. Good(frame'[t], pc'[t], told', table', failed')
    BY <1>1, <1>2, <1>3 DEF FileBadRequest, Good, Unreadable, FrameType, DbSteps, PythonSteps, RightStatement
  <2> QED BY <1>1, <1>2, <1>3, <2>1, <2>2 DEF StepOK, FileBadRequest
<1>4. CASE FileOutOfRange(t)
  <2>1. TypeOK'
    BY <1>1, <1>2, <1>4 DEF FileOutOfRange, TypeOK, FrameType, Pages, Steps, DbSteps, PythonSteps, Ids
  <2>2. Good(frame'[t], pc'[t], told', table', failed')
    BY <1>1, <1>2, <1>4 DEF FileOutOfRange, Good, FrameType, DbSteps, PythonSteps, RightStatement
  <2> QED BY <1>1, <1>2, <1>4, <2>1, <2>2 DEF StepOK, FileOutOfRange
<1>7. CASE FileThrows(t)
  <2>1. TypeOK'
    BY <1>1, <1>2, <1>7 DEF FileThrows, TypeOK, FrameType, Pages, Steps, DbSteps, PythonSteps, Ids
  <2>2. Good(frame'[t], pc'[t], told', table', failed')
    BY <1>1, <1>2, <1>7 DEF FileThrows, Good, FrameType, DbSteps, PythonSteps, RightStatement
  <2> QED BY <1>1, <1>2, <1>7, <2>1, <2>2 DEF StepOK, FileThrows
<1>5. CASE FileNotFound(t)
  <2>1. TypeOK'
    BY <1>1, <1>2, <1>5 DEF FileNotFound, TypeOK, FrameType, Pages, Steps, DbSteps, PythonSteps, Ids
  <2>2. Good(frame'[t], pc'[t], told', table', failed')
    BY <1>1, <1>2, <1>5 DEF FileNotFound, Good, FrameType, DbSteps, PythonSteps, RightStatement
  <2> QED BY <1>1, <1>2, <1>5, <2>1, <2>2 DEF StepOK, FileNotFound
<1>6. CASE FileFound(t)
  <2>1. TypeOK'
    BY <1>1, <1>2, <1>6, SentOfFile DEF FileFound, TypeOK, FrameType, Pages, Steps, DbSteps, PythonSteps, Ids
  <2>2. Good(frame'[t], pc'[t], told', table', failed')
    BY <1>1, <1>2, <1>6 DEF FileFound, Good, FrameType, DbSteps, PythonSteps, RightStatement
  <2> QED BY <1>1, <1>2, <1>6, <2>1, <2>2 DEF StepOK, FileFound
<1> QED
  BY <1>3, <1>4, <1>5, <1>6, <1>7 DEF FileStep

-----------------------------------------------------------------------------
(***************************************************************************)
(* Sessions.                                                               *)
(***************************************************************************)
\* While no statement has thrown and MySQL allows a session for every thread, a
\* thread that uses none finds one.
LEMMA RoomForOne ==
  ASSUME IndInv, EnoughConnections, ~failed, NEW t \in Threads, frame[t].conn = {}
  PROVE  ~Full
<1> SUFFICES ASSUME sessions = Connections PROVE FALSE
  BY DEF Full
<1> DEFINE user == [c \in Connections |-> CHOOSE u \in Threads : c \in frame[u].conn]
<1>1. \A c \in Connections : \E u \in Threads : c \in frame[u].conn
  BY IndInvParts DEF SessionsHeld
<1>2. \A c \in Connections : user[c] \in Threads /\ c \in frame[user[c]].conn
  BY <1>1
<1>3. user \in [Connections -> Threads \ {t}]
  BY <1>2
<1>4. IsFiniteSet(Connections) /\ IsFiniteSet(Threads)
  BY BoundsAssumption
<1>5. /\ IsFiniteSet(Threads \ {t})
      /\ Cardinality(Threads \ {t}) = Cardinality(Threads) - 1
  BY <1>4, FS_RemoveElement
<1>6. Cardinality(Threads) \in Nat /\ Cardinality(Connections) \in Nat
  BY <1>4, FS_CardinalityType
<1>7. Cardinality(Threads \ {t}) < Cardinality(Connections)
  BY <1>5, <1>6 DEF EnoughConnections
<1> HIDE DEF user
<1>8. PICK c, d \in Connections : c # d /\ user[c] = user[d]
  BY <1>3, <1>4, <1>5, <1>7, FS_PigeonHole
<1>9. \A u \in Threads : \A x, y \in frame[u].conn : x = y
  BY IndInvParts DEF AllGood, Good
<1> QED
  BY <1>2, <1>8, <1>9

\* The error of a request that MySQL has no session for.
LEMMA DbConnectThrowsOK ==
  ASSUME IndInv, NEW t \in Threads, DbConnectThrows(t)
  PROVE  StepOK(t)
<1> USE DEF DbConnectThrows, mysqlVars, pythonVars, Return, Request
<1>1. /\ TypeOK /\ told \subseteq table
      /\ Good(frame[t], pc[t], told, table, failed)
  BY IndInvParts DEF AllGood
<1>2. frame[t] \in FrameType /\ frame \in [Threads -> FrameType] /\ pc \in [Threads -> Steps]
  BY <1>1 DEF TypeOK
<1>3. EnoughConnections => failed
  BY <1>1, RoomForOne DEF Good
<1>4. TypeOK'
  BY <1>1, <1>2 DEF TypeOK, FrameType, Pages, Steps
<1>5. Good(frame'[t], pc'[t], told', table', failed')
  BY <1>1, <1>2, <1>3 DEF Good, FrameType, DbSteps, PythonSteps
<1> QED
  BY <1>1, <1>2, <1>4, <1>5 DEF StepOK

\* Every step of a thread does no more than StepOK says.
LEMMA StepIsOK ==
  ASSUME IndInv, NEW t \in Threads, Step(t)
  PROVE  StepOK(t)
BY ArriveOK, DbOK, DbConnectThrowsOK, PyOK, FileOK DEF Step

\* Until a statement has thrown, a step of t ends the session it leaves.
LEMMA LeavesNoSession ==
  ASSUME IndInv, NEW t \in Threads, Step(t), ~failed'
  PROVE  sessions' \subseteq (sessions \ frame[t].conn) \cup frame'[t].conn
<1> USE DEF mysqlVars, pythonVars, Return, Connect, Terminate
<1>1. TypeOK /\ Good(frame[t], pc[t], told, table, failed)
  BY IndInvParts DEF AllGood
<1>2. frame \in [Threads -> FrameType]
  BY <1>1 DEF TypeOK
<1>3. frame[t] \in FrameType
  BY <1>2
<1>4. CASE \E r \in Requests : Arrive(t, r)
  BY <1>1, <1>4 DEF Arrive, Good
<1>5. CASE DbStep(t)
  <2>1. CASE DbBadRequest(t) \/ DbConnectThrows(t)
    BY <1>1, <2>1 DEF DbBadRequest, DbConnectThrows, Good
  <2>2. CASE DbConnect(t)
    BY <1>1, <1>2, <1>3, <2>2 DEF DbConnect, Good, FrameType
  <2>3. CASE QueryTable(t) \/ UpdateTable(t)
    BY <1>2, <1>3, <2>3 DEF QueryTable, UpdateTable, FrameType
  <2>4. CASE DbStatementThrows(t)
    BY <2>4 DEF DbStatementThrows
  <2>5. CASE DbDelete(t)
    BY <2>5 DEF DbDelete
  <2> QED BY <1>5, <2>1, <2>2, <2>3, <2>4, <2>5 DEF DbStep
<1>6. CASE PyStep(t)
  <2>1. CASE PyBadRequest(t)
    BY <1>1, <2>1 DEF PyBadRequest, Good
  <2>2. CASE \/ PyInitialize(t) \/ PyImport(t) \/ PyNoString(t) \/ PyConnectRaises(t)
             \/ PyExecuteRaises(t) \/ PyFault(t)
    BY <2>2 DEF PyInitialize, PyImport, PyNoString, PyConnectRaises, PyExecuteRaises, PyFault
  <2>3. CASE PyConnect(t)
    <3>1. frame[t].conn = {}
      BY <1>1, <2>3 DEF PyConnect, Good
    <3> QED BY <1>2, <1>3, <2>3, <3>1 DEF PyConnect, FrameType
  <2>4. CASE PyExecute(t)
    BY <1>2, <1>3, <2>4 DEF PyExecute, FrameType
  <2>5. CASE PyCommit(t) \/ PyRelease(t)
    BY <2>5 DEF PyCommit, PyRelease
  <2> QED BY <1>6, <2>1, <2>2, <2>3, <2>4, <2>5 DEF PyStep
<1>7. CASE FileStep(t)
  <2>1. CASE FileBadRequest(t) \/ FileNotFound(t)
    BY <1>1, <2>1 DEF FileBadRequest, FileNotFound, Good
  <2>2. CASE FileOutOfRange(t) \/ FileThrows(t)
    BY <2>2 DEF FileOutOfRange, FileThrows
  <2>3. CASE FileFound(t)
    BY <1>2, <1>3, <2>3 DEF FileFound, FrameType
  <2> QED BY <1>7, <2>1, <2>2, <2>3 DEF FileStep
<1> QED
  BY <1>4, <1>5, <1>6, <1>7 DEF Step

LEMMA StepHoldsSessions ==
  ASSUME IndInv, NEW t \in Threads, Step(t)
  PROVE  SessionsHeld'
<1> SUFFICES ASSUME ~failed', NEW c \in sessions'
             PROVE  \E u \in Threads : c \in frame'[u].conn
  BY DEF SessionsHeld
<1>1. StepOK(t)
  BY StepIsOK
<1>2. CASE c \in frame'[t].conn
  BY <1>2
<1>3. CASE c \in sessions \ frame[t].conn
  <2>1. ~failed
    BY <1>1 DEF StepOK
  <2>2. PICK u \in Threads : c \in frame[u].conn
    BY <1>3, <2>1, IndInvParts DEF SessionsHeld
  <2> QED BY <1>1, <1>3, <2>2 DEF StepOK
<1> QED
  BY <1>2, <1>3, LeavesNoSession

-----------------------------------------------------------------------------
(***************************************************************************)
(* The interpreter.                                                        *)
(***************************************************************************)
\* A step that neither enters nor leaves the interpreter.
LEMMA InterpreterKept ==
  ASSUME OwnInterpreter, UNCHANGED pythonVars,
         \A u \in Threads : Inside(u)' <=> Inside(u)
  PROVE  OwnInterpreter'
BY DEF OwnInterpreter, pythonVars

LEMMA StepOwnInterpreter ==
  ASSUME IndInv, NEW t \in Threads, Step(t)
  PROVE  OwnInterpreter'
<1> USE DEF Return, Connect, Terminate
<1>1. OwnInterpreter /\ pc \in [Threads -> Steps]
  BY IndInvParts DEF TypeOK
<1>2. CASE ~PyInitialize(t) /\ ~PyRelease(t)
  <2>1. UNCHANGED pythonVars
    BY <1>2 DEF Step, DbStep, PyStep, FileStep, pythonVars, Arrive,
      DbBadRequest, DbConnectThrows, DbConnect, QueryTable, UpdateTable, DbStatementThrows,
      DbDelete, PyBadRequest, PyImport, PyNoString, PyConnectRaises, PyConnect, PyExecute,
      PyExecuteRaises, PyCommit, PyFault, FileBadRequest, FileOutOfRange, FileThrows,
      FileNotFound, FileFound
  <2>2. \A u \in Threads \ {t} : Inside(u)' <=> Inside(u)
    BY StepIsOK DEF StepOK, Inside
  <2>3. Inside(t)' <=> Inside(t)
    <3>1. CASE \E r \in Requests : Arrive(t, r)
      BY <1>1, <3>1, RequestsAssumption DEF Arrive, Inside, PythonSteps
    <3>2. CASE DbStep(t)
      BY <1>1, <3>2 DEF DbStep, DbBadRequest, DbConnectThrows, DbConnect, QueryTable,
        UpdateTable, DbStatementThrows, DbDelete, Inside, PythonSteps
    <3>3. CASE PyBadRequest(t) \/ PyImport(t) \/ PyNoString(t) \/ PyConnectRaises(t)
      BY <1>1, <3>3 DEF PyBadRequest, PyImport, PyNoString, PyConnectRaises, Inside, PythonSteps
    <3>4. CASE PyConnect(t) \/ PyExecute(t) \/ PyExecuteRaises(t) \/ PyCommit(t) \/ PyFault(t)
      BY <1>1, <3>4 DEF PyConnect, PyExecute, PyExecuteRaises, PyCommit, PyFault, Inside, PythonSteps
    <3>5. CASE FileStep(t)
      BY <1>1, <3>5 DEF FileStep, FileBadRequest, FileOutOfRange, FileThrows, FileNotFound, FileFound,
        Inside, PythonSteps
    <3> QED BY <1>2, <3>1, <3>2, <3>3, <3>4, <3>5 DEF Step, PyStep
  <2> QED BY <1>1, <2>1, <2>2, <2>3, InterpreterKept
<1>3. CASE PyInitialize(t)
  <2> SUFFICES ASSUME ~overlapped' PROVE OwnInterpreter'
    BY DEF OwnInterpreter
  <2>1. ~overlapped /\ \A u \in Threads \ {t} : ~Inside(u)
    BY <1>3 DEF PyInitialize
  <2>2. ~Inside(t)
    BY <1>3 DEF PyInitialize, Inside, PythonSteps
  <2>3. interp' = [on |-> TRUE, starter |-> {t}, paths |-> 1]
    BY <1>1, <1>3, <2>1, <2>2 DEF PyInitialize, OwnInterpreter
  <2>4. \A u \in Threads : Inside(u)' <=> u = t
    BY <1>1, <1>3, <2>1 DEF PyInitialize, Inside, PythonSteps
  <2> QED BY <2>3, <2>4 DEF OwnInterpreter
<1>4. CASE PyRelease(t)
  <2> SUFFICES ASSUME ~overlapped' PROVE OwnInterpreter'
    BY DEF OwnInterpreter
  <2>1. ~overlapped /\ Inside(t)
    BY <1>4 DEF PyRelease, Inside, PythonSteps
  <2>2. interp.starter = {t}
    BY <1>1, <2>1 DEF OwnInterpreter
  <2>3. \A u \in Threads : Inside(u) => interp.starter = {u}
    BY <1>1, <2>1 DEF OwnInterpreter
  <2>4. \A u \in Threads : Inside(u) => u = t
    BY <2>2, <2>3
  <2>5. \A u \in Threads : ~Inside(u)'
    BY <1>1, <1>4, <2>4 DEF PyRelease, Inside, PythonSteps
  <2>6. ~interp'.on
    BY <1>4 DEF PyRelease
  <2> QED BY <2>5, <2>6 DEF OwnInterpreter
<1> QED
  BY <1>2, <1>3, <1>4

-----------------------------------------------------------------------------
(***************************************************************************)
(* The invariant, and what follows.                                        *)
(***************************************************************************)
\* A step of a thread.
LEMMA StepInv ==
  ASSUME IndInv, NEW t \in Threads, Step(t)
  PROVE  IndInv'
<1>1. StepOK(t)
  BY StepIsOK
<1>2. AllGood'
  <2> SUFFICES ASSUME NEW u \in Threads
               PROVE  Good(frame'[u], pc'[u], told', table', failed')
    BY DEF AllGood
  <2>1. CASE u = t
    BY <1>1, <2>1 DEF StepOK
  <2>2. CASE u # t
    <3>1. Good(frame[u], pc[u], told, table, failed)
      BY IndInvParts DEF AllGood
    <3>2. frame'[u] = frame[u] /\ pc'[u] = pc[u]
      BY <1>1, <2>2 DEF StepOK
    <3>3. told \subseteq told' /\ table \subseteq table' /\ (failed => failed')
      BY <1>1 DEF StepOK
    <3>4. Good(frame[u], pc[u], told', table', failed')
      BY <3>1, <3>3, GoodGrows
    <3> QED BY <3>2, <3>4
  <2> QED BY <2>1, <2>2
<1>3. TypeOK' /\ (told \subseteq table)'
  BY <1>1 DEF StepOK
<1> QED
  BY <1>2, <1>3, StepHoldsSessions, StepOwnInterpreter, IndInvPartsNext

\* MySQL ends a session that no thread uses.
LEMMA ExpireInv ==
  ASSUME IndInv, NEW s \in Connections, Expire(s)
  PROVE  IndInv'
<1> USE DEF Expire, pythonVars
<1>1. /\ TypeOK /\ AllGood /\ SessionsHeld /\ told \subseteq table /\ OwnInterpreter
  BY IndInvParts
<1>2. TypeOK'
  BY <1>1 DEF TypeOK
<1>3. AllGood' /\ (told \subseteq table)'
  BY <1>1 DEF AllGood
<1>4. SessionsHeld' /\ OwnInterpreter'
  BY <1>1 DEF SessionsHeld, OwnInterpreter, Inside
<1> QED
  BY <1>2, <1>3, <1>4, IndInvPartsNext

\* Every step keeps the inductive invariant.
LEMMA NextInv == IndInv /\ [Next]_vars => IndInv'
<1> SUFFICES ASSUME IndInv, [Next]_vars PROVE IndInv'
  OBVIOUS
<1>1. CASE UNCHANGED vars
  <2>1. /\ TypeOK /\ AllGood /\ SessionsHeld /\ told \subseteq table /\ OwnInterpreter
    BY IndInvParts
  <2>2. TypeOK' /\ AllGood' /\ SessionsHeld' /\ (told \subseteq table)' /\ OwnInterpreter'
    BY <1>1, <2>1 DEF vars, TypeOK, AllGood, SessionsHeld, OwnInterpreter, Inside
  <2> QED BY <2>2, IndInvPartsNext
<1>2. CASE \E t \in Threads : Step(t)
  BY <1>2, StepInv
<1>3. CASE \E s \in Connections : Expire(s)
  BY <1>3, ExpireInv
<1> QED
  BY <1>1, <1>2, <1>3 DEF Next

\* IndInv is an invariant of the handlers.
THEOREM Invariance == Spec => []IndInv
BY InitInv, NextInv, PTL DEF Spec

\* The handlers and what they share have the types of TypeOK.
THEOREM TypeCorrect == Spec => []TypeOK
<1>1. IndInv => TypeOK
  BY DEF IndInv
<1> QED
  BY <1>1, Invariance, PTL

\* A query through DbHandler or a script sees every update whose client had its
\* answer when the query arrived.
THEOREM QueriesSeeUpdates == Spec => []ReadsAnswered
<1>1. IndInv => ReadsAnswered
  BY DEF IndInv
<1> QED
  BY <1>1, Invariance, PTL

\* With a connection for every thread, DbHandler answers a statement MySQL can
\* run with an error only after a statement has thrown.
THEOREM NoLeakNoError == Spec => []ServedUntilFailure
<1>1. IndInv => ServedUntilFailure
  BY DEF IndInv
<1> QED
  BY <1>1, Invariance, PTL

\* Until two threads meet in PythonHandler, each script has an interpreter of
\* its own, which is gone before the next request.
THEOREM InterpreterPerRequest == Spec => []OwnInterpreter
<1>1. IndInv => OwnInterpreter
  BY DEF IndInv
<1> QED
  BY <1>1, Invariance, PTL
-----------------------------------------------------------------------------
(***************************************************************************)
(* What ends the process.                                                  *)
(***************************************************************************)
\* Characters as a fold of a function.
LEMMA CharactersFolds ==
  ASSUME NEW C, NEW s \in Seq(C)
  PROVE  Characters(s) =
           Folded([x \in Nat \X C |-> x[1] + (IF IsEscape(x[2]) THEN 3 ELSE 1)], 0, s)
<1> DEFINE D == Nat
           zero == 0
           F == [x \in D \X C |-> x[1] + (IF IsEscape(x[2]) THEN 3 ELSE 1)]
           Eq(g) == g = [t \in SUBSET DOMAIN s |->
                           IF t = {} THEN zero
                           ELSE g[t \ {Max(t)}] + (IF IsEscape(s[Max(t)]) THEN 3 ELSE 1)]
<1>1. F \in [D \X C -> D] /\ zero \in D
  OBVIOUS
<1>2. \A n \in D, c \in C : F[<<n, c>>] = n + (IF IsEscape(c) THEN 3 ELSE 1)
  OBVIOUS
<1> HIDE DEF D, zero, F
<1>3. PICK g0 \in [SUBSET DOMAIN s -> D] : Table(g0, D, C, F, zero, s)
  BY <1>1, FoldExists
<1>4. Eq(g0)
  BY <1>2, <1>3, MaxElement DEF Table
<1>5. Characters(s) = (CHOOSE g : Eq(g))[DOMAIN s]
  BY DEF FoldLeft, MapThenFoldSet, Characters, zero
<1> DEFINE g == CHOOSE g : Eq(g)
<1>6. Eq(g)
  BY <1>4
<1> HIDE DEF g
<1>7. Table(g, D, C, F, zero, s)
  <2>1. g[{}] = zero
    BY <1>6
  <2> SUFFICES ASSUME NEW t \in SUBSET DOMAIN s, t # {}, g[t \ {Max(t)}] \in D
               PROVE  g[t] = F[<<g[t \ {Max(t)}], s[Max(t)]>>]
    BY <1>1, <2>1 DEF Table
  <2>2. s[Max(t)] \in C
    BY MaxElement
  <2> QED BY <1>2, <1>6, <2>2
<1>8. g[DOMAIN s] = Folded(F, zero, s)
  BY <1>7, FoldValue
<1> QED
  BY <1>5, <1>8 DEF g, F, D, zero

\* A text without escapes has as many characters as tokens.
LEMMA CharactersPlain ==
  ASSUME NEW C, NEW s \in Seq(C), \A i \in 1..Len(s) : ~IsEscape(s[i])
  PROVE  Characters(s) = Len(s)
<1> DEFINE S == {c \in C : ~IsEscape(c)}
           F == [x \in Nat \X S |-> x[1] + (IF IsEscape(x[2]) THEN 3 ELSE 1)]
           P == {u \in Seq(S) : Folded(F, 0, u) = Len(u)}
<1>1. \A n \in Nat, c \in S : F[<<n, c>>] = n + 1
  OBVIOUS
<1> HIDE DEF F
<1>2. <<>> \in P
  BY FoldedEmpty
<1>3. \A u \in Seq(S), c \in S : u \in P => Append(u, c) \in P
  <2> SUFFICES ASSUME NEW u \in Seq(S), NEW c \in S, u \in P
               PROVE  Append(u, c) \in P
    OBVIOUS
  <2> HIDE DEF S
  <2>1. Folded(F, 0, Append(u, c)) = F[<<Folded(F, 0, u), c>>]
    BY FoldedAppend
  <2> QED BY <1>1, <2>1
<1>4. s \in Seq(S)
  OBVIOUS
<1>5. Folded(F, 0, s) = Len(s)
  <2>1. \A u \in Seq(S) : u \in P
    <3> HIDE DEF P, S
    <3> QED BY <1>2, <1>3, AppendInduction
  <2> QED BY <1>4, <2>1
<1> HIDE DEF S
<1> QED
  BY <1>4, <1>5, CharactersFolds DEF F

\* A step that ends the process is one that EndsExplained names.
LEMMA StepEnds ==
  ASSUME IndInv, ~terminated, NEW t \in Threads, Step(t), terminated'
  PROVE  EndsExplained'
<1> USE DEF Terminate, Return, Connect
<1>1. TypeOK /\ Good(frame[t], pc[t], told, table, failed)
  BY IndInvParts DEF AllGood
<1>2. CASE PyNoString(t) \/ PyFault(t)
  BY <1>2 DEF PyNoString, PyFault, Inside, PythonSteps, EndsExplained
<1>3. CASE FileOutOfRange(t)
  <2>1. PICK r : r = Request(t)
    OBVIOUS
  <2>2. r \in Requests /\ r.handler = "file"
    <3>1. r.handler = "file"
      BY <1>1, <1>3, <2>1 DEF FileOutOfRange, Good, Request
    <3>2. r \in Requests \cup {NoRequest}
      BY <1>1, <2>1 DEF TypeOK, FrameType, Request
    <3> QED BY <3>1, <3>2 DEF NoRequest
  <2>3. r.prefix \in Seq(STRING) /\ r.uri \in Seq(STRING) /\ Len(r.prefix) <= Len(r.uri)
    BY <2>2, RequestsAssumption DEF IsPrefix
  <2>4. Characters(r.prefix) > Len(r.uri)
    BY <1>3, <2>1 DEF FileOutOfRange, OutOfRange
  <2>5. Characters(r.prefix) # Len(r.prefix)
    BY <2>3, <2>4
  <2>6. \E i \in 1..Len(r.prefix) : IsEscape(r.prefix[i])
    BY <2>3, <2>5, CharactersPlain
  <2>7. pc'[t] = "file" /\ Request(t)' = r
    BY <1>3, <2>1 DEF FileOutOfRange, Request
  <2> QED BY <2>6, <2>7 DEF EndsExplained
<1>5. CASE FileThrows(t)
  BY <1>5 DEF FileThrows, EndsExplained, Request
<1>4. CASE ~PyNoString(t) /\ ~PyFault(t) /\ ~FileOutOfRange(t) /\ ~FileThrows(t)
  BY <1>4 DEF Step, DbStep, PyStep, FileStep, Arrive,
    DbBadRequest, DbConnectThrows, DbConnect, QueryTable, UpdateTable, DbStatementThrows,
    DbDelete, PyBadRequest, PyInitialize, PyImport, PyConnectRaises, PyConnect, PyExecute,
    PyExecuteRaises, PyCommit, PyRelease, FileBadRequest, FileNotFound, FileFound
<1> QED
  BY <1>2, <1>3, <1>4, <1>5

\* The process ends only in a Python call, for a URI under a prefix with an escape,
\* or when the disk refuses to look a file up: no other request, and nothing MySQL
\* does, ends it, and neither does a file that does not exist or cannot be opened.
THEOREM EndsOnlySo == Spec => []EndsExplained
<1>1. Init => EndsExplained
  BY DEF Init, EndsExplained
<1>2. IndInv /\ EndsExplained /\ [Next]_vars => EndsExplained'
  <2> SUFFICES ASSUME IndInv, EndsExplained, [Next]_vars PROVE EndsExplained'
    OBVIOUS
  <2>1. CASE UNCHANGED vars
    BY <2>1 DEF vars, EndsExplained, Inside, Request
  <2>2. CASE \E t \in Threads : Next /\ Step(t)
    <3>1. CASE terminated'
      BY <2>2, <3>1, StepEnds DEF Next
    <3> QED BY <3>1 DEF EndsExplained
  <2>3. CASE \E s \in Connections : Next /\ Expire(s)
    BY <2>3 DEF Next, Expire, EndsExplained
  <2> QED BY <2>1, <2>2, <2>3 DEF Next
<1> QED
  BY <1>1, <1>2, Invariance, PTL DEF Spec

-----------------------------------------------------------------------------
(***************************************************************************)
(* What a browser sends of a form, and what ParseBody makes of it.         *)
(***************************************************************************)
\* What a browser makes of what is typed.
Wire == {Encoded(c) : c \in Typed}

FormFields == [name: Seq(Typed) \ {<<>>}, value: Seq(Typed)]

\* The escapes, one by one.
LEMMA EscapesAre ==
  ASSUME NEW e \in Escapes
  PROVE  /\ e = <<e[1], e[2]>>
         /\ \/ (e[1] = "%20" /\ e[2] = " ")
            \/ (e[1] = "%25" /\ e[2] = "%")
            \/ (e[1] = "%26" /\ e[2] = "&")
            \/ (e[1] = "%2B" /\ e[2] = "+")
            \/ (e[1] = "%2E" /\ e[2] = ".")
            \/ (e[1] = "%2F" /\ e[2] = "/")
            \/ (e[1] = "%3D" /\ e[2] = "=")
            \/ (e[1] = "%00" /\ e[2] = "nul")
<1>1. CASE e = <<"%20", " ">>
  BY <1>1
<1>2. CASE e = <<"%25", "%">>
  BY <1>2
<1>3. CASE e = <<"%26", "&">>
  BY <1>3
<1>4. CASE e = <<"%2B", "+">>
  BY <1>4
<1>5. CASE e = <<"%2E", ".">>
  BY <1>5
<1>6. CASE e = <<"%2F", "/">>
  BY <1>6
<1>7. CASE e = <<"%3D", "=">>
  BY <1>7
<1>8. CASE e = <<"%00", "nul">>
  BY <1>8
<1> QED
  BY <1>1, <1>2, <1>3, <1>4, <1>5, <1>6, <1>7, <1>8, Zenon DEF Escapes

\* No two of them are the same, or stand for the same.
LEMMA EscapesDiffer ==
  ASSUME NEW e \in Escapes, NEW x \in Escapes, x[1] = e[1] \/ x[2] = e[2]
  PROVE  x = e
<1>1. x[1] = e[1] /\ x[2] = e[2]
  BY EscapesAre
<1> QED
  BY <1>1, EscapesAre, Zenon

\* Decoding undoes encoding, and nothing that has a meaning in a body is left.
LEMMA EncodedDecodes ==
  ASSUME NEW c \in Typed
  PROVE  /\ Decoded(Encoded(c)) = c
         /\ Encoded(c) \notin {"&", "=", " ", "nul", Malformed}
<1>1. ~IsEscape(c) /\ c \notin {Malformed, "nul"}
  BY DEF Typed
<1>2. ASSUME NEW e \in Escapes, NEW x \in Escapes
      PROVE  (x[1] = e[1] \/ x[2] = e[2]) => x = e
  BY EscapesDiffer
<1>3. ASSUME NEW e \in Escapes, NEW y, y = e[1]
      PROVE  (CHOOSE x \in Escapes : x[1] = y) = e
  BY <1>2, <1>3
<1>8. ASSUME NEW e \in Escapes, NEW y, y = e[2]
      PROVE  (CHOOSE x \in Escapes : x[2] = y) = e
  BY <1>2, <1>8
<1>4. \A e \in Escapes : IsEscape(e[1]) /\ Decoded(e[1]) = e[2]
  <2> SUFFICES ASSUME NEW e \in Escapes PROVE IsEscape(e[1]) /\ Decoded(e[1]) = e[2]
    OBVIOUS
  <2>1. PICK y : y = e[1]
    OBVIOUS
  <2>2. IsEscape(y)
    BY <2>1 DEF IsEscape
  <2>3. (CHOOSE x \in Escapes : x[1] = y) = e
    BY <1>3, <2>1
  <2>4. y # "+"
    BY <2>1, EscapesAre
  <2>5. Decoded(y) = (CHOOSE x \in Escapes : x[1] = y)[2]
    BY <2>2, <2>4 DEF Decoded
  <2> QED BY <2>1, <2>2, <2>3, <2>5
<1>5. CASE c = " "
  <2>1. Encoded(c) = "+"
    BY <1>5 DEF Encoded
  <2>2. ~IsEscape("+")
    BY DEF IsEscape, Escapes
  <2> QED BY <1>5, <2>1, <2>2 DEF Decoded, Malformed
<1>6. CASE c \in {"%", "&", "+", "=", "/"}
  <2>1. PICK e \in Escapes : e[2] = c /\ e[1] \notin {"&", "=", " ", "nul", Malformed}
    BY <1>6 DEF Escapes, Malformed
  <2>2. Encoded(c) = e[1]
    <3>1. (CHOOSE x \in Escapes : x[2] = c) = e
      BY <1>8, <2>1
    <3>2. Encoded(c) = (CHOOSE x \in Escapes : x[2] = c)[1]
      BY <1>6 DEF Encoded
    <3> QED BY <3>1, <3>2
  <2> QED BY <1>4, <2>1, <2>2
<1>7. CASE c \notin {" ", "%", "&", "+", "=", "/"}
  <2>1. Encoded(c) = c
    BY <1>1, <1>7 DEF Encoded
  <2> QED BY <1>1, <1>7, <2>1 DEF Decoded
<1> QED
  BY <1>5, <1>6, <1>7

\* The same of a text.
LEMMA EncodeDecodes ==
  ASSUME NEW s \in Seq(Typed)
  PROVE  /\ Encode(s) \in Seq(Wire) /\ Len(Encode(s)) = Len(s)
         /\ uri_decode(Encode(s)) = s /\ Decodes(Encode(s))
<1>1. Encode(s) \in Seq(Wire) /\ Len(Encode(s)) = Len(s)
  BY DEF Encode, Wire
<1>2. \A i \in 1..Len(s) : Encode(s)[i] = Encoded(s[i]) /\ s[i] \in Typed
  BY DEF Encode
<1>3. Decodes(Encode(s))
  BY <1>1, <1>2, EncodedDecodes DEF Decodes
<1>4. uri_decode(Encode(s)) = s
  <2>1. \A i \in 1..Len(s) : Decoded(Encode(s)[i]) = s[i]
    BY <1>2, EncodedDecodes
  <2>2. uri_decode(Encode(s)) = [i \in 1..Len(s) |-> s[i]]
    BY <1>1, <2>1 DEF uri_decode
  <2> QED BY <2>2
<1> QED
  BY <1>1, <1>3, <1>4

LEMMA WireHasNone ==
  ASSUME NEW e \in Wire
  PROVE  e \notin {"&", "=", " ", "nul", Malformed}
BY EncodedDecodes DEF Wire

\* The index of the last c in s.
LEMMA LastOfIs ==
  ASSUME NEW s, Len(s) \in Nat, NEW c, NEW m \in 1..Len(s), s[m] = c,
         \A i \in 1..Len(s) : s[i] = c => i <= m
  PROVE  LastOf(s, c) = m
<1> DEFINE S == {0} \cup {i \in 1..Len(s) : s[i] = c}
<1>1. m \in S /\ \A i \in S : i \in Int /\ i <= m
  OBVIOUS
<1> HIDE DEF S
<1>2. \A x \in S : (\A i \in S : x >= i) => x = m
  BY <1>1
<1>3. Max(S) = m
  BY <1>1, <1>2 DEF Max
<1> QED
  BY <1>3 DEF LastOf, S

\* A field of a form is a text that ParseBody reads as what was typed.
LEMMA FieldArrives ==
  ASSUME NEW f \in FormFields
  PROVE  /\ FormField(f) \in Seq(Wire \cup {"="}) /\ FormField(f) # <<>>
         /\ Matches(FormField(f))
         /\ Pair(FormField(f)) = [name |-> Encode(f.name), value |-> f.value]
<1> DEFINE name == Encode(f.name)
           value == Encode(f.value)
           n == Len(name)
           text == FormField(f)
<1>1. /\ name \in Seq(Wire) /\ value \in Seq(Wire) /\ n \in Nat \ {0} /\ Len(value) \in Nat
      /\ Decodes(value) /\ uri_decode(value) = f.value
  <2>1. f.name \in Seq(Typed) /\ f.name # <<>> /\ f.value \in Seq(Typed)
    BY DEF FormFields
  <2>2. Len(f.name) \in Nat \ {0}
    BY <2>1
  <2> QED BY <2>1, <2>2, EncodeDecodes
<1>2. text = name \o <<"=">> \o value
  BY DEF FormField
<1> HIDE DEF name, value, n, text
<1> DEFINE W == Wire \cup {"="}
<1>3. name \in Seq(W) /\ <<"=">> \in Seq(W) /\ value \in Seq(W)
  BY <1>1
<1>4. /\ text \in Seq(W) /\ Len(text) = n + 1 + Len(value)
      /\ \A i \in 1..n : text[i] = name[i]
      /\ text[n + 1] = "="
      /\ \A i \in 1..Len(value) : text[n + 1 + i] = value[i]
  BY <1>1, <1>2, <1>3 DEF n
<1>5. \A i \in 1..Len(text) : i # n + 1 => text[i] \in Wire
  <2> SUFFICES ASSUME NEW i \in 1..Len(text), i # n + 1 PROVE text[i] \in Wire
    OBVIOUS
  <2>1. CASE i <= n
    BY <1>1, <1>4, <2>1 DEF n
  <2>2. CASE i > n + 1
    <3>1. i - (n + 1) \in 1..Len(value) /\ n + 1 + (i - (n + 1)) = i
      BY <1>1, <1>4, <2>2
    <3>2. text[i] = value[i - (n + 1)]
      BY <1>4, <3>1
    <3> QED BY <1>1, <3>1, <3>2
  <2> QED BY <1>1, <2>1, <2>2
<1>6. Equals(text) = n + 1
  <2>1. Len(text) \in Nat /\ n + 1 \in 1..Len(text)
    BY <1>1, <1>4
  <2>2. \A i \in 1..Len(text) : text[i] = "=" => i <= n + 1
    <3>1. \A i \in 1..Len(text) : i # n + 1 => text[i] # "="
      BY <1>5, WireHasNone
    <3> QED BY <1>1, <3>1
  <2> QED BY <1>4, <2>1, <2>2, LastOfIs DEF Equals
<1>7. SubSeq(text, 1, n + 1 - 1) = name
  BY <1>1, <1>4 DEF n
<1>8. SubSeq(text, n + 1 + 1, Len(text)) = value
  BY <1>1, <1>4
<1>9. \A i \in 1..Len(text) : text[i] # " "
  BY <1>4, <1>5, WireHasNone
<1>10. Matches(text)
  <2>1. n + 1 > 1
    BY <1>1
  <2>2. SubSeq(text, Equals(text) + 1, Len(text)) = value
    BY <1>6, <1>8
  <2>3. Decodes(value)
    BY <1>1
  <2> QED BY <1>6, <1>9, <2>1, <2>2, <2>3 DEF Matches
<1>11. Pair(text) = [name |-> name, value |-> f.value]
  <2>1. SubSeq(text, 1, Equals(text) - 1) = name
    BY <1>1, <1>6, <1>7
  <2>2. SubSeq(text, Equals(text) + 1, Len(text)) = value
    BY <1>6, <1>8
  <2>3. uri_decode(value) = f.value
    BY <1>1
  <2> QED BY <2>1, <2>2, <2>3 DEF Pair
<1>12. text # <<>>
  BY <1>1, <1>4
<1> QED
  BY <1>4, <1>10, <1>11, <1>12 DEF text, name
-----------------------------------------------------------------------------
(***************************************************************************)
(* The scan for ampersands.                                                *)
(***************************************************************************)
Scanned(C) == [done: Seq(Seq(C)), sub: Seq(C)]

Begin == [done |-> <<>>, sub |-> <<>>]

\* Scan of SubBodies as a function, for texts without "nul".
ScanOf(C) ==
  [x \in Scanned(C) \X C |->
     IF x[2] = "&" THEN [done |-> Append(x[1].done, x[1].sub), sub |-> <<>>]
                   ELSE [done |-> x[1].done, sub |-> Append(x[1].sub, x[2])]]

LEMMA ScanValue ==
  ASSUME NEW C, NEW acc \in Scanned(C), NEW c \in C
  PROVE  ScanOf(C)[<<acc, c>>] =
           IF c = "&" THEN [done |-> Append(acc.done, acc.sub), sub |-> <<>>]
                      ELSE [done |-> acc.done, sub |-> Append(acc.sub, c)]
BY DEF ScanOf

LEMMA ScanType ==
  ASSUME NEW C
  PROVE  ScanOf(C) \in [Scanned(C) \X C -> Scanned(C)] /\ Begin \in Scanned(C)
BY DEF ScanOf, Scanned, Begin

LEMMA SubGrows ==
  ASSUME NEW d, NEW u, NEW c
  PROVE  [[done |-> d, sub |-> u] EXCEPT !.sub = Append(@, c)]
           = [done |-> d, sub |-> Append(u, c)]
<1>1. PICK v : v = Append(u, c)
  OBVIOUS
<1>2. [done |-> d, sub |-> u].sub = u
  OBVIOUS
<1> QED
  BY <1>1, <1>2

\* SubBodies as a fold of this function.
LEMMA SubBodiesFolds ==
  ASSUME NEW C, "&" \in C, "nul" \notin C, NEW body \in Seq(C)
  PROVE  SubBodies(body) = Folded(ScanOf(C), Begin, Append(body, "&")).done
<1> DEFINE D == Scanned(C)
           F == ScanOf(C)
           s == Append(body, "&")
           Eq(g) == g = [t \in SUBSET DOMAIN s |->
                           IF t = {} THEN Begin
                           ELSE Scan(g[t \ {Max(t)}], s[Max(t)])]
<1>1. s \in Seq(C) /\ F \in [D \X C -> D] /\ Begin \in D
  <2>1. s \in Seq(C)
    OBVIOUS
  <2>2. F \in [D \X C -> D] /\ Begin \in D
    BY ScanType
  <2> QED BY <2>1, <2>2
<1>2. ASSUME NEW acc \in D, NEW c \in C
      PROVE  F[<<acc, c>>] = Scan(acc, c)
  <2>1. acc.sub \in Seq(C)
    BY DEF Scanned
  <2>2. c_str(acc.sub) = acc.sub
    BY <2>1 DEF c_str
  <2>3. [acc EXCEPT !.sub = Append(@, c)] = [done |-> acc.done, sub |-> Append(acc.sub, c)]
    <3>1. acc = [done |-> acc.done, sub |-> acc.sub]
      BY DEF Scanned
    <3>2. PICK d, u : d = acc.done /\ u = acc.sub
      OBVIOUS
    <3>3. acc = [done |-> d, sub |-> u]
      BY <3>1, <3>2
    <3>4. [[done |-> d, sub |-> u] EXCEPT !.sub = Append(@, c)]
            = [done |-> d, sub |-> Append(u, c)]
      BY SubGrows
    <3> QED BY <3>2, <3>3, <3>4
  <2>4. F[<<acc, c>>] = IF c = "&" THEN [done |-> Append(acc.done, acc.sub), sub |-> <<>>]
                                   ELSE [done |-> acc.done, sub |-> Append(acc.sub, c)]
    BY ScanValue
  <2> HIDE DEF F
  <2> QED BY <2>2, <2>3, <2>4 DEF Scan
<1> HIDE DEF D, F
<1>3. PICK g0 \in [SUBSET DOMAIN s -> D] : Table(g0, D, C, F, Begin, s)
  BY <1>1, FoldExists
<1>4. Eq(g0)
  <2> HIDE DEF s
  <2> QED BY <1>1, <1>2, <1>3, MaxElement DEF Table
<1>5. SubBodies(body) = (CHOOSE g : Eq(g))[DOMAIN s].done
  BY DEF FoldLeft, MapThenFoldSet, SubBodies, Begin
<1> DEFINE g == CHOOSE g : Eq(g)
<1>6. Eq(g)
  BY <1>4
<1> HIDE DEF g, s
<1>7. Table(g, D, C, F, Begin, s)
  <2>1. g[{}] = Begin
    BY <1>6
  <2> SUFFICES ASSUME NEW t \in SUBSET DOMAIN s, t # {}, g[t \ {Max(t)}] \in D
               PROVE  g[t] = F[<<g[t \ {Max(t)}], s[Max(t)]>>]
    BY <1>1, <2>1 DEF Table
  <2>2. s[Max(t)] \in C
    BY <1>1, MaxElement
  <2> QED BY <1>2, <1>6, <2>2
<1>8. g[DOMAIN s] = Folded(F, Begin, s)
  BY <1>7, FoldValue
<1> QED
  BY <1>5, <1>8 DEF g, F, s

\* Text without ampersands goes to the end of the sub-body.
LEMMA ScanText ==
  ASSUME NEW C, NEW body \in Seq(C), NEW text \in Seq(C \ {"&"}),
         NEW acc \in Scanned(C), acc = Folded(ScanOf(C), Begin, body)
  PROVE  Folded(ScanOf(C), Begin, body \o text) =
           [done |-> acc.done, sub |-> acc.sub \o text]
<1> DEFINE F == ScanOf(C)
           S == C \ {"&"}
           P == {u \in Seq(S) :
                   Folded(F, Begin, body \o u) = [done |-> acc.done, sub |-> acc.sub \o u]}
<1>1. acc.done \in Seq(Seq(C)) /\ acc.sub \in Seq(C) /\ acc = [done |-> acc.done, sub |-> acc.sub]
  BY DEF Scanned
<1>2. <<>> \in P
  <2>1. body \o <<>> = body /\ acc.sub \o <<>> = acc.sub
    BY <1>1
  <2> QED BY <1>1, <2>1
<1>3. ASSUME NEW u \in Seq(S), NEW c \in S, u \in P
      PROVE  Append(u, c) \in P
  <2>1. u \in Seq(C) /\ c \in C /\ c # "&" /\ body \o u \in Seq(C)
    OBVIOUS
  <2>2. /\ body \o Append(u, c) = Append(body \o u, c)
        /\ acc.sub \o Append(u, c) = Append(acc.sub \o u, c)
    BY <1>1, <2>1
  <2>3. Folded(F, Begin, Append(body \o u, c)) = F[<<Folded(F, Begin, body \o u), c>>]
    BY <2>1, FoldedAppend
  <2>4. [done |-> acc.done, sub |-> acc.sub \o u] \in Scanned(C)
    BY <1>1, <2>1 DEF Scanned
  <2>5. F[<<[done |-> acc.done, sub |-> acc.sub \o u], c>>]
          = [done |-> acc.done, sub |-> Append(acc.sub \o u, c)]
    <3>1. PICK a : a = [done |-> acc.done, sub |-> acc.sub \o u]
      OBVIOUS
    <3>2. F[<<a, c>>] = [done |-> a.done, sub |-> Append(a.sub, c)]
      BY <2>1, <2>4, <3>1, ScanValue
    <3> QED BY <3>1, <3>2
  <2>6. Append(u, c) \in Seq(S)
    OBVIOUS
  <2> HIDE DEF F, S
  <2> QED BY <1>3, <2>2, <2>3, <2>5, <2>6
<1>4. \A u \in Seq(S) : u \in P
  <2> HIDE DEF P, S
  <2> QED BY <1>2, <1>3, AppendInduction
<1> QED
  BY <1>4
-----------------------------------------------------------------------------
(***************************************************************************)
(* A form and the sub-bodies of its body.                                  *)
(***************************************************************************)
\* The characters of a body.
OfBody == Wire \cup {"=", "&"}

LEMMA OfBodyFacts == "&" \in OfBody /\ "nul" \notin OfBody /\ OfBody \ {"&"} = Wire \cup {"="}
BY WireHasNone DEF OfBody

\* Join as a function.
JoinOf == [x \in Seq(OfBody) \X FormFields |-> Join(x[1], x[2])]

LEMMA JoinType ==
  ASSUME NEW body \in Seq(OfBody), NEW f \in FormFields
  PROVE  Join(body, f) \in Seq(OfBody) /\ Join(body, f) # <<>>
         /\ JoinOf[<<body, f>>] = Join(body, f)
<1>1. FormField(f) \in Seq(OfBody) /\ FormField(f) # <<>>
  <2>1. FormField(f) \in Seq(Wire \cup {"="}) /\ FormField(f) # <<>>
    BY FieldArrives
  <2> QED BY <2>1 DEF OfBody
<1>2. PICK sep : sep = (IF body = <<>> THEN <<>> ELSE <<"&">>)
  OBVIOUS
<1>3. sep \in Seq(OfBody)
  BY <1>2, OfBodyFacts
<1>4. Join(body, f) = body \o sep \o FormField(f)
  BY <1>2 DEF Join
<1>5. Len(FormField(f)) > 0
  BY <1>1
<1> HIDE <1>2
<1>6. body \o sep \o FormField(f) \in Seq(OfBody) /\ body \o sep \o FormField(f) # <<>>
  BY <1>1, <1>3, <1>5
<1>7. JoinOf[<<body, f>>] = Join(body, f)
  BY DEF JoinOf
<1> QED
  BY <1>4, <1>6, <1>7

\* FormBodyOf as a fold of it.
LEMMA FormBodyFolds ==
  ASSUME NEW form \in Seq(FormFields)
  PROVE  FormBodyOf(form) = Folded(JoinOf, <<>>, form)
<1> DEFINE D == Seq(OfBody)
           C == FormFields
           F == JoinOf
           Eq(g) == g = [t \in SUBSET DOMAIN form |->
                           IF t = {} THEN <<>> ELSE Join(g[t \ {Max(t)}], form[Max(t)])]
<1>1. F \in [D \X C -> D] /\ <<>> \in D
  <2>1. \A x \in D \X C : Join(x[1], x[2]) \in D
    BY JoinType
  <2>2. F = [x \in D \X C |-> Join(x[1], x[2])]
    BY DEF JoinOf
  <2> HIDE DEF D, C, F
  <2>3. F \in [D \X C -> D]
    BY <2>1, <2>2
  <2> QED BY <2>3 DEF D
<1>2. \A body \in D, f \in C : F[<<body, f>>] = Join(body, f)
  BY JoinType
<1>3. form \in Seq(C)
  OBVIOUS
<1> HIDE DEF D, C, F
<1>4. PICK g0 \in [SUBSET DOMAIN form -> D] : Table(g0, D, C, F, <<>>, form)
  BY <1>1, <1>3, FoldExists
<1>5. Eq(g0)
  BY <1>2, <1>3, <1>4, MaxElement DEF Table
<1>6. FormBodyOf(form) = (CHOOSE g : Eq(g))[DOMAIN form]
  BY DEF FoldLeft, MapThenFoldSet, FormBodyOf
<1> DEFINE g == CHOOSE g : Eq(g)
<1>7. Eq(g)
  BY <1>5
<1> HIDE DEF g
<1>8. Table(g, D, C, F, <<>>, form)
  <2>1. g[{}] = <<>>
    BY <1>7
  <2> SUFFICES ASSUME NEW t \in SUBSET DOMAIN form, t # {}, g[t \ {Max(t)}] \in D
               PROVE  g[t] = F[<<g[t \ {Max(t)}], form[Max(t)]>>]
    BY <1>1, <1>3, <2>1 DEF Table
  <2>2. form[Max(t)] \in C
    BY <1>3, MaxElement
  <2> QED BY <1>2, <1>7, <2>2
<1>9. g[DOMAIN form] = Folded(F, <<>>, form)
  BY <1>8, FoldValue
<1> QED
  BY <1>6, <1>9 DEF g, F
\* The texts of the fields of a form.
Texts(form) == [i \in 1..Len(form) |-> FormField(form[i])]

\* What the scan has seen when it is at the end of the body of a form.
Seen(form) ==
  IF form = <<>> THEN Begin
  ELSE [done |-> SubSeq(Texts(form), 1, Len(form) - 1), sub |-> FormField(form[Len(form)])]

LEMMA FieldText ==
  ASSUME NEW f \in FormFields
  PROVE  FormField(f) \in Seq(OfBody) /\ FormField(f) \in Seq(OfBody \ {"&"})
<1>1. FormField(f) \in Seq(Wire \cup {"="})
  BY FieldArrives
<1> QED
  BY <1>1, OfBodyFacts DEF OfBody

LEMMA TextsType ==
  ASSUME NEW form \in Seq(FormFields)
  PROVE  Texts(form) \in Seq(Seq(OfBody)) /\ Len(Texts(form)) = Len(form)
<1>1. \A i \in 1..Len(form) : FormField(form[i]) \in Seq(OfBody)
  BY FieldText
<1> DEFINE S == Seq(OfBody)
<1> HIDE DEF S
<1>2. \A i \in 1..Len(form) : FormField(form[i]) \in S
  BY <1>1 DEF S
<1>3. Texts(form) \in Seq(S) /\ Len(Texts(form)) = Len(form)
  BY <1>2 DEF Texts
<1> QED
  BY <1>3 DEF S

\* An ampersand, or the end of the body, ends the last field.
LEMMA SeenEnds ==
  ASSUME NEW form \in Seq(FormFields), form # <<>>
  PROVE  /\ Seen(form) \in Scanned(OfBody)
         /\ ScanOf(OfBody)[<<Seen(form), "&">>] = [done |-> Texts(form), sub |-> <<>>]
<1> DEFINE n == Len(form)
           S == Seq(OfBody)
           T == Texts(form)
<1>1. n \in Nat \ {0} /\ T \in Seq(S) /\ Len(T) = n
  BY TextsType
<1>2. T[n] = FormField(form[n])
  BY <1>1 DEF Texts
<1>3. FormField(form[n]) \in S
  BY <1>1, FieldText
<1>4. Seen(form) = [done |-> SubSeq(T, 1, n - 1), sub |-> T[n]]
  BY <1>2 DEF Seen
<1>5. Seen(form) \in [done: Seq(S), sub: S]
  <2> HIDE DEF n, S, T
  <2>1. SubSeq(T, 1, n - 1) \in Seq(S) /\ T[n] \in S
    BY <1>1
  <2> QED BY <1>4, <2>1
<1>6. Append(SubSeq(T, 1, n - 1), T[n]) = T
  <2> HIDE DEF n, S, T
  <2> QED BY <1>1
<1>7. ScanOf(OfBody)[<<Seen(form), "&">>]
        = [done |-> Append(Seen(form).done, Seen(form).sub), sub |-> <<>>]
  <2>1. Seen(form) \in Scanned(OfBody)
    BY <1>5 DEF Scanned
  <2> QED BY <2>1, OfBodyFacts, ScanValue
<1> HIDE DEF n, S, T
<1>8. Append(Seen(form).done, Seen(form).sub) = T
  <2>1. Seen(form).done = SubSeq(T, 1, n - 1) /\ Seen(form).sub = T[n]
    <3>1. PICK d, u : d = SubSeq(T, 1, n - 1) /\ u = T[n]
      OBVIOUS
    <3>2. Seen(form) = [done |-> d, sub |-> u]
      BY <1>4, <3>1
    <3>3. Seen(form).done = d /\ Seen(form).sub = u
      BY <3>2
    <3> QED BY <3>1, <3>3, Zenon
  <2> QED BY <2>1, <1>6
<1> QED
  BY <1>5, <1>7, <1>8 DEF Scanned, S, T

\* The scan of the body of a form.
LEMMA ScanForm ==
  ASSUME NEW form \in Seq(FormFields)
  PROVE  LET body == Folded(JoinOf, <<>>, form)
         IN  /\ body \in Seq(OfBody) /\ (body = <<>> <=> form = <<>>)
             /\ Folded(ScanOf(OfBody), Begin, body) = Seen(form)
<1> DEFINE B(u) == Folded(JoinOf, <<>>, u)
           F == ScanOf(OfBody)
           P == {u \in Seq(FormFields) :
                   /\ B(u) \in Seq(OfBody) /\ (B(u) = <<>> <=> u = <<>>)
                   /\ Folded(F, Begin, B(u)) = Seen(u)}
<1>1. <<>> \in P
  <2>1. B(<<>>) = <<>> /\ Folded(F, Begin, <<>>) = Begin
    BY FoldedEmpty
  <2>2. <<>> \in Seq(FormFields) /\ <<>> \in Seq(OfBody) /\ Seen(<<>>) = Begin
    BY DEF Seen
  <2> HIDE DEF B, F
  <2> QED BY <2>1, <2>2
<1>2. ASSUME NEW u \in Seq(FormFields), NEW f \in FormFields, u \in P
      PROVE  Append(u, f) \in P
  <2> DEFINE body == B(u)
             text == FormField(f)
             v == Append(u, f)
  <2>1. body \in Seq(OfBody) /\ (body = <<>> <=> u = <<>>) /\ Folded(F, Begin, body) = Seen(u)
    BY <1>2
  <2>2. B(v) = JoinOf[<<body, f>>]
    BY FoldedAppend
  <2>3. B(v) = Join(body, f) /\ B(v) \in Seq(OfBody) /\ B(v) # <<>>
    BY <2>1, <2>2, JoinType
  <2>4. /\ text \in Seq(OfBody) /\ text \in Seq(OfBody \ {"&"}) /\ "&" \in OfBody
        /\ Begin \in Scanned(OfBody)
    BY FieldText, OfBodyFacts, ScanType
  <2>5. /\ v \in Seq(FormFields) /\ v # <<>> /\ Len(v) = Len(u) + 1 /\ v[Len(v)] = f
        /\ Len(u) \in Nat /\ \A i \in 1..Len(u) : v[i] = u[i]
    <3>1. v \in Seq(FormFields) /\ Len(v) = Len(u) + 1 /\ Len(u) \in Nat
      OBVIOUS
    <3>2. v[Len(u) + 1] = f /\ \A i \in 1..Len(u) : v[i] = u[i]
      OBVIOUS
    <3> HIDE DEF v
    <3> QED BY <3>1, <3>2
  <2>6. Texts(u) = SubSeq(Texts(v), 1, Len(v) - 1)
    <3>1. Texts(u) \in Seq(Seq(OfBody)) /\ Len(Texts(u)) = Len(u)
          /\ Texts(v) \in Seq(Seq(OfBody)) /\ Len(Texts(v)) = Len(v)
      BY <2>5, TextsType
    <3>2. \A i \in 1..Len(u) : Texts(u)[i] = Texts(v)[i]
      BY <2>5 DEF Texts
    <3> HIDE DEF v
    <3> QED BY <2>5, <3>1, <3>2
  <2>7. Seen(v) = [done |-> Texts(u), sub |-> text]
    BY <2>5, <2>6 DEF Seen
  <2>8. Folded(F, Begin, B(v)) = Seen(v)
    <3>1. CASE u = <<>>
      <4>1. B(v) = <<>> \o text /\ Begin = Folded(F, Begin, <<>>)
        <5>1. body = <<>>
          BY <2>1, <3>1
        <5>2. Join(<<>>, f) = <<>> \o text
          BY <2>4 DEF Join
        <5> QED BY <2>3, <5>1, <5>2, FoldedEmpty
      <4>2. Folded(F, Begin, <<>> \o text) = [done |-> Begin.done, sub |-> Begin.sub \o text]
        <5>1. <<>> \in Seq(OfBody)
          OBVIOUS
        <5> QED BY <2>4, <4>1, <5>1, ScanText
      <4>3. Begin.done = Texts(u) /\ Begin.sub \o text = text
        BY <2>4, <3>1 DEF Begin, Texts
      <4> QED BY <2>7, <4>1, <4>2, <4>3
    <3>2. CASE u # <<>>
      <4>1. B(v) = Append(body, "&") \o text /\ Append(body, "&") \in Seq(OfBody)
        BY <2>1, <2>3, <2>4, <3>2 DEF Join
      <4>2. Folded(F, Begin, Append(body, "&")) = F[<<Seen(u), "&">>]
        <5>1. Folded(F, Begin, Append(body, "&")) = F[<<Folded(F, Begin, body), "&">>]
          <6> HIDE DEF F, body
          <6> QED BY <2>1, <2>4, FoldedAppend
        <5> QED BY <2>1, <5>1
      <4>3. F[<<Seen(u), "&">>] = [done |-> Texts(u), sub |-> <<>>]
        BY <3>2, SeenEnds
      <4>4. PICK acc : acc = [done |-> Texts(u), sub |-> <<>>]
        OBVIOUS
      <4>5. acc \in Scanned(OfBody) /\ acc = Folded(F, Begin, Append(body, "&"))
        BY <4>2, <4>3, <4>4, TextsType DEF Scanned
      <4>6. Folded(F, Begin, Append(body, "&") \o text)
              = [done |-> acc.done, sub |-> acc.sub \o text]
        BY <2>4, <4>1, <4>5, ScanText
      <4>7. acc.done = Texts(u) /\ acc.sub \o text = text
        BY <2>4, <4>4
      <4> QED BY <2>7, <4>1, <4>6, <4>7
    <3> QED BY <3>1, <3>2
  <2> HIDE DEF B, F, v
  <2> QED BY <2>3, <2>5, <2>8 DEF v
<1>3. \A u \in Seq(FormFields) : u \in P
  <2> HIDE DEF P
  <2> QED BY <1>1, <1>2, AppendInduction
<1> QED
  BY <1>3

\* ParseBody finds the fields of a form, and nothing else.
LEMMA FormParses ==
  ASSUME NEW form \in Seq(FormFields), form # <<>>
  PROVE  /\ Parses(FormBodyOf(form))
         /\ decoded_body(FormBodyOf(form)) =
              [i \in 1..Len(form) |-> [name |-> Encode(form[i].name), value |-> form[i].value]]
<1> DEFINE body == FormBodyOf(form)
<1>1. /\ body \in Seq(OfBody)
      /\ Folded(ScanOf(OfBody), Begin, body) = Seen(form)
  BY FormBodyFolds, ScanForm
<1> HIDE DEF body
<1>2. SubBodies(body) = Texts(form)
  <2>1. SubBodies(body) = Folded(ScanOf(OfBody), Begin, Append(body, "&")).done
    BY <1>1, OfBodyFacts, SubBodiesFolds
  <2>2. Folded(ScanOf(OfBody), Begin, Append(body, "&")) = ScanOf(OfBody)[<<Seen(form), "&">>]
    BY <1>1, OfBodyFacts, FoldedAppend
  <2>3. ScanOf(OfBody)[<<Seen(form), "&">>] = [done |-> Texts(form), sub |-> <<>>]
    BY SeenEnds
  <2> QED BY <2>1, <2>2, <2>3
<1>3. Len(Texts(form)) = Len(form) /\ \A i \in 1..Len(form) : Texts(form)[i] = FormField(form[i])
  BY TextsType DEF Texts
<1>4. \A i \in 1..Len(form) :
        /\ Matches(FormField(form[i]))
        /\ Pair(FormField(form[i])) = [name |-> Encode(form[i].name), value |-> form[i].value]
  BY FieldArrives
<1>5. Parses(body)
  BY <1>2, <1>3, <1>4 DEF Parses
<1>6. decoded_body(body) =
        [i \in 1..Len(form) |-> [name |-> Encode(form[i].name), value |-> form[i].value]]
  BY <1>2, <1>3, <1>4 DEF decoded_body
<1> QED
  BY <1>5, <1>6 DEF body

-----------------------------------------------------------------------------
(***************************************************************************)
(* Forms that arrive.                                                      *)
(***************************************************************************)
\* What FormsAssumption says of a request with a form, and what ParseBody makes
\* of it.
LEMMA FormRead ==
  ASSUME NEW r \in Requests, r.form # <<>>
  PROVE  /\ r.form \in Seq(FormFields) /\ Len(r.form) \in Nat \ {0}
         /\ \A i, j \in 1..Len(r.form) : r.form[i].name = r.form[j].name => i = j
         /\ Parses(r.body)
         /\ Len(decoded_body(r.body)) = Len(r.form)
         /\ \A i \in 1..Len(r.form) :
              /\ decoded_body(r.body)[i].name = Encode(r.form[i].name)
              /\ decoded_body(r.body)[i].value = r.form[i].value
              /\ r.form[i].name \in Seq(Typed) /\ r.form[i].value \in Seq(Typed)
<1>1. /\ r.form \in Seq(FormFields) /\ r.body = FormBodyOf(r.form)
      /\ \A i, j \in 1..Len(r.form) : r.form[i].name = r.form[j].name => i = j
  BY FormsAssumption DEF FormFields
<1>2. Len(r.form) \in Nat \ {0}
  BY <1>1
<1>3. /\ Parses(r.body)
      /\ decoded_body(r.body) =
           [i \in 1..Len(r.form) |-> [name |-> Encode(r.form[i].name), value |-> r.form[i].value]]
  BY <1>1, FormParses
<1>4. \A i \in 1..Len(r.form) : r.form[i].name \in Seq(Typed) /\ r.form[i].value \in Seq(Typed)
  <2>1. \A i \in 1..Len(r.form) : r.form[i] \in FormFields
    BY <1>1
  <2> QED BY <2>1 DEF FormFields
<1>5. Len(decoded_body(r.body)) = Len(r.form)
  BY <1>2, <1>3
<1> QED
  BY <1>1, <1>2, <1>3, <1>4, <1>5

\* The names that the handlers look for are sent as they are.
LEMMA KnownNames ==
  ASSUME NEW n \in {<<"query">>, <<"update">>}
  PROVE  Encode(n) = n
<1>1. PICK c \in {"query", "update"} : n = <<c>>
  OBVIOUS
<1>2. Encoded(c) = c
  BY DEF Encoded
<1>3. Len(<<c>>) = 1 /\ <<c>>[1] = c
  OBVIOUS
<1>4. Encode(<<c>>) = [i \in 1..1 |-> c]
  BY <1>2, <1>3 DEF Encode
<1> QED
  BY <1>1, <1>4

\* A text without "nul" is shown as it is.
LEMMA NothingCut ==
  ASSUME NEW s, \A i \in 1..Len(s) : s[i] # "nul"
  PROVE  c_str(s) = s
BY DEF c_str

\* A name is known by what it is sent as.
LEMMA NameKnown ==
  ASSUME NEW s \in Seq(Typed)
  PROVE  c_str(Encode(s)) = <<"query">> <=> s = <<"query">>
<1>1. Encode(s) \in Seq(Wire) /\ uri_decode(Encode(s)) = s
  BY EncodeDecodes
<1>2. c_str(Encode(s)) = Encode(s)
  <2>1. \A i \in 1..Len(Encode(s)) : Encode(s)[i] \in Wire
    BY <1>1
  <2>2. \A i \in 1..Len(Encode(s)) : Encode(s)[i] # "nul"
    BY <2>1, WireHasNone
  <2> QED BY <2>2, NothingCut
<1>3. ASSUME Encode(s) = <<"query">> PROVE s = <<"query">>
  <2>1. Decoded("query") = "query" /\ Len(<<"query">>) = 1 /\ <<"query">>[1] = "query"
    <3>1. ~IsEscape("query")
      BY EscapesAre DEF IsEscape
    <3> QED BY <3>1 DEF Decoded
  <2>2. uri_decode(<<"query">>) = [i \in 1..1 |-> "query"]
    BY <2>1 DEF uri_decode
  <2> QED BY <1>1, <1>3, <2>2
<1>4. ASSUME s = <<"query">> PROVE Encode(s) = <<"query">>
  BY <1>4, KnownNames
<1> QED
  BY <1>2, <1>3, <1>4

\* DbHandler accepts a form with one field that it knows, and runs what is in it.
LEMMA DbFormArrives ==
  ASSUME NEW r \in Requests, Fields(r) \in {{<<"query">>}, {<<"update">>}}
  PROVE  DbValid(r) /\ DbStatement(r) = Field(r, DbName(r))
<1>1. PICK n \in {<<"query">>, <<"update">>} : Fields(r) = {n}
  OBVIOUS
<1>2. r.form # <<>>
  BY <1>1 DEF Fields
<1>3. r.form[1].name = n /\ 1 \in 1..Len(r.form)
  <2>1. Len(r.form) \in Nat \ {0}
    BY <1>2, FormRead
  <2>2. 1 \in 1..Len(r.form)
    BY <2>1
  <2>3. r.form[1].name \in Fields(r)
    BY <2>2 DEF Fields
  <2> QED BY <1>1, <2>2, <2>3
<1>4. DbName(r) = n /\ DbStatement(r) = r.form[1].value
  BY <1>2, <1>3, FormRead, KnownNames DEF DbName, DbStatement
<1>5. (CHOOSE i \in 1..Len(r.form) : r.form[i].name = n) = 1
  BY <1>2, <1>3, FormRead
<1>6. DbValid(r)
  BY <1>2, <1>4, FormRead DEF DbValid
<1> QED
  BY <1>4, <1>5, <1>6 DEF Field

\* A URI with a slash at its start and a point somewhere has them decoded.
LEMMA UriKeepsMarks ==
  ASSUME NEW uri \in Seq(STRING), uri # <<>>, uri[1] = "/"
  PROVE  /\ LastOf(uri_decode(uri), "/") # 0
         /\ LastOf(uri_decode(uri), ".") = 0 => LastOf(uri, ".") = 0
<1>1. Len(uri) \in Nat \ {0} /\ Len(uri_decode(uri)) = Len(uri)
      /\ \A i \in 1..Len(uri) : uri_decode(uri)[i] = Decoded(uri[i])
  BY DEF uri_decode
<1>2. Decoded("/") = "/" /\ Decoded(".") = "."
  <2>1. ~IsEscape("/") /\ ~IsEscape(".")
    BY EscapesAre DEF IsEscape
  <2> QED BY <2>1 DEF Decoded
<1>3. ASSUME NEW s, Len(s) \in Nat, NEW c
      PROVE  LastOf(s, c) = 0 <=> \A i \in 1..Len(s) : s[i] # c
  <2>1. CASE \A i \in 1..Len(s) : s[i] # c
    <3>1. {0} \cup {i \in 1..Len(s) : s[i] = c} = {0}
      BY <2>1
    <3>2. Max({0}) = 0
      BY DEF Max
    <3> QED BY <2>1, <3>1, <3>2 DEF LastOf
  <2>2. CASE \E i \in 1..Len(s) : s[i] = c
    <3> DEFINE t == {i \in 1..Len(s) : s[i] = c}
    <3>1. t \in SUBSET (1..Len(s)) /\ t # {}
      BY <2>2
    <3>2. Max(t) \in t /\ \A i \in t : i <= Max(t)
      <4> HIDE DEF t
      <4> QED BY <1>3, <3>1, MaxIsLargest
    <3>3. LastOf(s, c) = Max(t)
      <4>1. Max(t) \in 1..Len(s) /\ s[Max(t)] = c
        BY <3>2
      <4>2. \A i \in 1..Len(s) : s[i] = c => i <= Max(t)
        BY <3>2
      <4> HIDE DEF t
      <4> QED BY <1>3, <4>1, <4>2, LastOfIs
    <3> QED BY <1>3, <2>2, <3>2, <3>3
  <2> QED BY <2>1, <2>2
<1>4. LastOf(uri_decode(uri), "/") # 0
  BY <1>1, <1>2, <1>3
<1>5. LastOf(uri_decode(uri), ".") = 0 => LastOf(uri, ".") = 0
  BY <1>1, <1>2, <1>3
<1> QED
  BY <1>4, <1>5

\* PythonHandler accepts a form sent to a script, and the script reads in it the
\* statement that was typed.
LEMMA PyFormArrives ==
  ASSUME NEW r \in Requests, <<"query">> \in Fields(r)
  PROVE  /\ ~PyValid(r) => LastOf(r.uri, ".") = 0
         /\ PyStatement(r) = Field(r, <<"query">>)
<1>1. PICK k \in 1..Len(r.form) : r.form[k].name = <<"query">>
  BY DEF Fields
<1>2. r.form # <<>>
  BY <1>1
<1>3. ~PyValid(r) => LastOf(r.uri, ".") = 0
  <2>1. Decodes(r.uri) /\ r.uri # <<>> /\ r.uri[1] = "/" /\ r.uri \in Seq(STRING)
    BY <1>2, FormsAssumption, RequestsAssumption
  <2>2. Parses(r.body)
    BY <1>2, FormRead
  <2>3. PICK uri : uri = r.uri
    OBVIOUS
  <2>4. /\ LastOf(uri_decode(uri), "/") # 0
        /\ LastOf(uri_decode(uri), ".") = 0 => LastOf(uri, ".") = 0
    BY <2>1, <2>3, UriKeepsMarks
  <2> QED BY <2>1, <2>2, <2>3, <2>4 DEF PyValid
<1>4. \A i \in 1..Len(r.form) : r.form[i].name = <<"query">> <=> i = k
  BY <1>1, <1>2, FormRead
<1>5. Field(r, <<"query">>) = r.form[k].value
  <2>1. (CHOOSE i \in 1..Len(r.form) : r.form[i].name = <<"query">>) = k
    BY <1>4
  <2> QED BY <2>1 DEF Field
<1>6. PyStatement(r) = r.form[k].value
  <2> DEFINE pairs == decoded_body(r.body)
             S == {i \in 1..Len(pairs) : c_str(pairs[i].name) = <<"query">>}
  <2>1. \A i \in 1..Len(r.form) : c_str(pairs[i].name) = <<"query">> <=> i = k
    <3> SUFFICES ASSUME NEW i \in 1..Len(r.form)
                 PROVE  c_str(pairs[i].name) = <<"query">> <=> i = k
      OBVIOUS
    <3>1. pairs[i].name = Encode(r.form[i].name) /\ r.form[i].name \in Seq(Typed)
      BY <1>2, FormRead
    <3>2. c_str(Encode(r.form[i].name)) = <<"query">> <=> r.form[i].name = <<"query">>
      BY <3>1, NameKnown
    <3> HIDE DEF pairs
    <3> QED BY <1>4, <3>1, <3>2
  <2>2. S = {k}
    BY <1>2, <2>1, FormRead
  <2>3. Max(S) = k
    <3>1. k \in Nat
      OBVIOUS
    <3>2. Max({k}) = k
      BY <3>1 DEF Max
    <3> HIDE DEF S
    <3> QED BY <2>2, <3>2
  <2>4. c_str(pairs[k].value) = r.form[k].value
    <3>1. pairs[k].value = r.form[k].value /\ r.form[k].value \in Seq(Typed)
      BY <1>2, FormRead
    <3>2. \A i \in 1..Len(r.form[k].value) : r.form[k].value[i] # "nul"
      BY <3>1 DEF Typed
    <3> HIDE DEF pairs
    <3> QED BY <3>1, <3>2, NothingCut
  <2> QED BY <2>3, <2>4 DEF PyStatement, PyItem
<1> QED
  BY <1>3, <1>5, <1>6

\* A form arrives as it was typed, through DbHandler and through a script, for
\* whatever is typed in it: none is refused for its body.
THEOREM FormsAsTyped == Spec => []FormsArrive
<1>1. IndInv => FormsArrive
  <2> SUFFICES ASSUME IndInv, NEW t \in Threads, NEW r, r = Request(t)
               PROVE  /\ r.handler = "db" /\ Fields(r) \in {{<<"query">>}, {<<"update">>}}
                           => /\ frame[t].page # "bad request"
                              /\ pc[t] \in DbSteps => DbStatement(r) = Field(r, DbName(r))
                      /\ r.handler = "python" /\ <<"query">> \in Fields(r)
                           => /\ frame[t].page = "bad request" => LastOf(r.uri, ".") = 0
                              /\ pc[t] = "py_execute"
                                   => PyStatement(r) = Field(r, <<"query">>)
    BY DEF FormsArrive
  <2>1. frame[t].page = "bad request" => Unreadable(r)
    BY DEF IndInv, RefusesUnreadable
  <2>2. r \in Requests \cup {NoRequest}
    BY DEF IndInv, TypeOK, FrameType, Request
  <2>3. r.handler \in {"db", "python"} => r \in Requests
    BY <2>2 DEF NoRequest
  <2>4. ASSUME r.handler = "db", Fields(r) \in {{<<"query">>}, {<<"update">>}}
        PROVE  frame[t].page # "bad request" /\ DbStatement(r) = Field(r, DbName(r))
    BY <2>1, <2>3, <2>4, DbFormArrives DEF Unreadable
  <2>5. ASSUME r.handler = "python", <<"query">> \in Fields(r)
        PROVE  /\ frame[t].page = "bad request" => LastOf(r.uri, ".") = 0
               /\ PyStatement(r) = Field(r, <<"query">>)
    BY <2>1, <2>3, <2>5, PyFormArrives DEF Unreadable
  <2> QED BY <2>4, <2>5
<1> QED
  BY <1>1, Invariance, PTL

-----------------------------------------------------------------------------
(***************************************************************************)
(* Which file a URI names, and as what it is sent.                         *)
(***************************************************************************)
\* WalkOn as a function.
Walks(C) == [at: Seq(Seq(C) \cup Seq(STRING)), name: Seq(C)]

AtRoot == [at |-> Root, name |-> <<>>]

WalkOver(C) == [x \in Walks(C) \X C |-> WalkOn(x[1], x[2])]

LEMMA WalkType ==
  ASSUME NEW C, NEW at \in Seq(Seq(C) \cup Seq(STRING)), NEW name \in Seq(C)
  PROVE  Walk(at, name) \in Seq(Seq(C) \cup Seq(STRING))
<1> DEFINE S == Seq(C) \cup Seq(STRING)
<1>1. at \in Seq(S) /\ name \in S
  OBVIOUS
<1> HIDE DEF S
<1>2. Append(at, name) \in Seq(S)
  BY <1>1
<1>3. at # <<>> => Front(at) \in Seq(S)
  BY <1>1 DEF Front
<1> QED
  BY <1>1, <1>2, <1>3 DEF Walk, S

LEMMA WalkOverType ==
  ASSUME NEW C
  PROVE  WalkOver(C) \in [Walks(C) \X C -> Walks(C)] /\ AtRoot \in Walks(C)
<1>1. AtRoot \in Walks(C)
  <2>1. Root \in Seq(Seq(STRING))
    BY DiskAssumption
  <2>2. Seq(STRING) \subseteq Seq(C) \cup Seq(STRING) /\ <<>> \in Seq(C)
    OBVIOUS
  <2>3. Root \in Seq(Seq(C) \cup Seq(STRING))
    BY <2>1, <2>2, SeqMonotonic, Zenon
  <2> QED BY <2>2, <2>3 DEF AtRoot, Walks
<1>2. ASSUME NEW w \in Walks(C), NEW c \in C PROVE WalkOn(w, c) \in Walks(C)
  <2>1. w.at \in Seq(Seq(C) \cup Seq(STRING)) /\ w.name \in Seq(C)
    BY <1>2 DEF Walks
  <2>2. Walk(w.at, w.name) \in Seq(Seq(C) \cup Seq(STRING))
    BY <2>1, WalkType
  <2>3. Append(w.name, c) \in Seq(C) /\ <<>> \in Seq(C)
    BY <2>1
  <2> QED BY <2>1, <2>2, <2>3 DEF WalkOn, Walks
<1> QED
  BY <1>1, <1>2 DEF WalkOver

\* OnDisk as a fold of a function.
LEMMA OnDiskFolds ==
  ASSUME NEW C, NEW s \in Seq(C), c_str(s) = s
  PROVE  LET walk == Folded(WalkOver(C), AtRoot, s) IN OnDisk(s) = Walk(walk.at, walk.name)
<1> DEFINE D == Walks(C)
           F == WalkOver(C)
           Eq(g) == g = [t \in SUBSET DOMAIN s |->
                           IF t = {} THEN AtRoot ELSE WalkOn(g[t \ {Max(t)}], s[Max(t)])]
<1>1. F \in [D \X C -> D] /\ AtRoot \in D
  BY WalkOverType
<1>2. \A p \in D, c \in C : F[<<p, c>>] = WalkOn(p, c)
  BY DEF WalkOver
<1> HIDE DEF D, F
<1>3. PICK g0 \in [SUBSET DOMAIN s -> D] : Table(g0, D, C, F, AtRoot, s)
  BY <1>1, FoldExists
<1>4. Eq(g0)
  <2>1. ASSUME NEW t \in SUBSET DOMAIN s, t # {}
        PROVE  g0[t] = WalkOn(g0[t \ {Max(t)}], s[Max(t)])
    <3>1. s[Max(t)] \in C /\ g0[t \ {Max(t)}] \in D
      BY <1>3, <2>1, MaxElement
    <3>2. g0[t] = F[<<g0[t \ {Max(t)}], s[Max(t)]>>]
      BY <1>3, <2>1, <3>1 DEF Table
    <3> QED BY <1>2, <3>1, <3>2
  <2> QED BY <1>3, <2>1 DEF Table
<1>5. LET walk == (CHOOSE g : Eq(g))[DOMAIN s] IN OnDisk(s) = Walk(walk.at, walk.name)
  BY DEF FoldLeft, MapThenFoldSet, OnDisk, AtRoot
<1> DEFINE g == CHOOSE g : Eq(g)
<1>6. Eq(g)
  BY <1>4
<1> HIDE DEF g
<1>7. Table(g, D, C, F, AtRoot, s)
  <2>1. g[{}] = AtRoot
    BY <1>6
  <2> SUFFICES ASSUME NEW t \in SUBSET DOMAIN s, t # {}, g[t \ {Max(t)}] \in D
               PROVE  g[t] = F[<<g[t \ {Max(t)}], s[Max(t)]>>]
    BY <1>1, <2>1 DEF Table
  <2>2. s[Max(t)] \in C
    BY MaxElement
  <2> QED BY <1>2, <1>6, <2>2
<1>8. g[DOMAIN s] = Folded(F, AtRoot, s)
  BY <1>7, FoldValue
<1> QED
  BY <1>5, <1>8 DEF g, F

-----------------------------------------------------------------------------
\* Nothing can be reached from a location that is no directory.
Outside(at) == at \notin Directories \cup Files

\* Two locations from which the same can be reached.
SameWay(x, y) == x = y \/ (Outside(x) /\ y \notin Directories)

LEMMA OutsideStays ==
  ASSUME NEW S, NEW at \in Seq(S), NEW name \in S, at \notin Directories \/ name = <<>>
  PROVE  Outside(Append(at, name))
<1>1. PICK to : to = Append(at, name)
  OBVIOUS
<1>2. to # <<>> /\ Last(to) = name
  BY <1>1 DEF Last
<1>3. Front(to) = at
  <2>1. Len(to) = Len(at) + 1 /\ Len(at) \in Nat /\ \A i \in 1..Len(at) : to[i] = at[i]
    BY <1>1
  <2>2. to \in Seq(S)
    BY <1>1
  <2>3. Front(to) = SubSeq(to, 1, Len(at))
    BY <2>1 DEF Front
  <2>4. PICK u : u = SubSeq(to, 1, Len(at))
    OBVIOUS
  <2>5. u \in Seq(S) /\ Len(u) = Len(at) /\ \A i \in 1..Len(at) : u[i] = at[i]
    BY <2>1, <2>2, <2>4
  <2>6. u = at
    BY <2>5
  <2> QED BY <2>3, <2>4, <2>6
<1>4. ~IsName(<<>>)
  BY DEF IsName
<1> QED
  BY <1>1, <1>2, <1>3, <1>4, DiskAssumption DEF Outside

\* One name further.
LEMMA WalkName ==
  ASSUME NEW S, NEW x \in Seq(S), NEW y \in Seq(S), SameWay(x, y), NEW name \in S, IsName(name)
  PROVE  /\ SameWay(Walk(x, name), Append(y, name))
         /\ Walk(x, name) # Append(y, name)
              => Outside(Walk(x, name)) /\ Outside(Append(y, name))
<1>1. name \notin {<<>>, <<".">>, <<".", ".">>}
  BY DEF IsName
<1>2. Walk(x, name) = IF x \in Refused THEN x ELSE Append(x, name)
  BY <1>1 DEF Walk
<1>3. x \in Refused => Outside(x)
  BY DiskAssumption DEF Outside
<1>4. x \notin Directories => Outside(Append(x, name))
  BY OutsideStays
<1>5. y \notin Directories => Outside(Append(y, name))
  BY OutsideStays
<1> QED
  BY <1>2, <1>3, <1>4, <1>5 DEF SameWay, Outside

\* A slash after a slash.
LEMMA WalkNowhere ==
  ASSUME NEW S, <<>> \in S, NEW x \in Seq(S), NEW y, SameWay(x, y)
  PROVE  SameWay(Walk(x, <<>>), y)
<1>1. Walk(x, <<>>) = IF x \in Refused \/ x \in Directories THEN x ELSE Append(x, <<>>)
  BY DEF Walk
<1>2. Outside(Append(x, <<>>))
  BY OutsideStays
<1>3. SameWay(x, y) /\ x \notin Directories => y \notin Directories
  BY DEF SameWay
<1> QED
  BY <1>1, <1>2, <1>3 DEF SameWay

-----------------------------------------------------------------------------
\* at is where each name of path begins in text, as in Names.
Spells(text, path, at) ==
  /\ at \in [1..Len(path) -> 1..Len(text)]
  /\ \A i \in 1..Len(path) :
       /\ path[i] # <<>> /\ text[at[i]] = "/" /\ at[i] + Len(path[i]) <= Len(text)
       /\ \A k \in 1..Len(path[i]) : path[i][k] = text[at[i] + k] /\ path[i][k] # "/"
  /\ \A i, j \in 1..Len(path) : i < j => at[i] + Len(path[i]) < at[j]
  /\ \A n \in 1..Len(text) :
       text[n] = "/" \/ \E i \in 1..Len(path) : \E k \in 1..Len(path[i]) : n = at[i] + k

LEMMA NamesSpelled ==
  ASSUME NEW text, NEW path, Names(text, path)
  PROVE  \E at : Spells(text, path, at)
BY DEF Names, Spells

LEMMA SubSeqNext ==
  ASSUME NEW S, NEW u \in Seq(S), NEW j \in 0..(Len(u) - 1)
  PROVE  SubSeq(u, 1, j + 1) = Append(SubSeq(u, 1, j), u[j + 1])
<1>1. PICK p, q : p = SubSeq(u, 1, j) /\ q = SubSeq(u, 1, j + 1)
  OBVIOUS
<1>2. /\ p \in Seq(S) /\ q \in Seq(S) /\ Len(p) = j /\ Len(q) = j + 1 /\ u[j + 1] \in S
      /\ q[j + 1] = u[j + 1] /\ \A i \in 1..j : p[i] = u[i] /\ q[i] = u[i]
  BY <1>1
<1> QED
  BY <1>1, <1>2

\* Kept folded where only the facts below matter.
Paths(S) == Seq(Seq(S))

LEMMA SpellsFacts ==
  ASSUME NEW C, NEW text \in Seq(C), NEW S, NEW path \in Paths(S), NEW at, Spells(text, path, at)
  PROVE  /\ Len(path) \in Nat /\ Len(text) \in Nat
         /\ \A i \in 1..Len(path) :
              /\ path[i] \in Seq(S) /\ Len(path[i]) \in Nat /\ Len(path[i]) > 0
              /\ at[i] \in 1..Len(text) /\ at[i] \in Nat /\ at[i] > 0
              /\ text[at[i]] = "/" /\ at[i] + Len(path[i]) <= Len(text)
         /\ \A i, j \in 1..Len(path) : i < j => at[i] + Len(path[i]) < at[j]
<1>1. Len(path) \in Nat /\ Len(text) \in Nat
  BY DEF Paths
<1>2. \A i \in 1..Len(path) : path[i] \in Seq(S)
  BY DEF Paths
<1>3. \A u \in Seq(S) : Len(u) \in Nat /\ (u # <<>> => Len(u) > 0)
  OBVIOUS
<1>4. \A i \in 1..Len(path) :
        path[i] # <<>> /\ at[i] \in 1..Len(text) /\ text[at[i]] = "/" /\ at[i] + Len(path[i]) <= Len(text)
  BY Zenon DEF Spells
<1>5. \A i, j \in 1..Len(path) : i < j => at[i] + Len(path[i]) < at[j]
  BY Zenon DEF Spells
<1> QED
  BY <1>1, <1>2, <1>3, <1>4, <1>5

\* The first m names of a path, from the root of the handler.
Under(path, m) == Root \o SubSeq(path, 1, m)

LEMMA UnderNext ==
  ASSUME NEW S, Seq(STRING) \subseteq S, NEW path \in Seq(S), NEW m \in 1..Len(path)
  PROVE  /\ Under(path, m - 1) \in Seq(S) /\ Under(path, m) \in Seq(S) /\ path[m] \in S
         /\ Append(Under(path, m - 1), path[m]) = Under(path, m)
<1>1. Root \in Seq(S)
  <2>1. Root \in Seq(Seq(STRING))
    BY DiskAssumption
  <2> QED BY <2>1, SeqMonotonic, Zenon
<1>2. PICK p, q : p = SubSeq(path, 1, m - 1) /\ q = SubSeq(path, 1, m)
  OBVIOUS
<1>3. p \in Seq(S) /\ q \in Seq(S) /\ path[m] \in S
  BY <1>2
<1>4. q = Append(p, path[m])
  <2>1. Len(q) = m /\ Len(p) = m - 1 /\ m \in Nat /\ q[m] = path[m]
    BY <1>2
  <2>2. \A i \in 1..(m - 1) : q[i] = path[i] /\ p[i] = path[i]
    BY <1>2
  <2> QED BY <1>3, <2>1, <2>2
<1>5. PICK root : root = Root
  OBVIOUS
<1>6. /\ root \o Append(p, path[m]) = Append(root \o p, path[m])
      /\ root \o p \in Seq(S) /\ root \o q \in Seq(S)
  BY <1>1, <1>3, <1>5
<1>7. Under(path, m - 1) = root \o p /\ Under(path, m) = root \o q
  BY <1>2, <1>5 DEF Under
<1> QED
  BY <1>3, <1>4, <1>6, <1>7

-----------------------------------------------------------------------------
\* The walk w has read n characters of text, and m names of path have begun:
\* it is within the last of them, or past it.
ReadTo(w, n, m, path, at) ==
  /\ m \in 0..Len(path)
  /\ m > 0 => at[m] <= n
  /\ m < Len(path) => n < at[m + 1]
  /\ \/ /\ m > 0 /\ n - at[m] <= Len(path[m])
        /\ w.name = SubSeq(path[m], 1, n - at[m])
        /\ SameWay(w.at, Under(path, m - 1))
     \/ /\ m > 0 => n - at[m] > Len(path[m])
        /\ w.name = <<>>
        /\ SameWay(w.at, Under(path, m))

\* Where the names that have begun have ended, the next character is a slash.
LEMMA NextSlash ==
  ASSUME NEW C, NEW text \in Seq(C), NEW S, NEW path \in Paths(S), NEW at, Spells(text, path, at),
         NEW n \in 0..(Len(text) - 1), NEW m \in 0..Len(path),
         m > 0 => n - at[m] >= Len(path[m]),
         m < Len(path) => n < at[m + 1]
  PROVE  text[n + 1] = "/"
<1> SUFFICES ASSUME NEW i \in 1..Len(path), NEW k \in 1..Len(path[i]), n + 1 = at[i] + k PROVE FALSE
  <2>1. n + 1 \in 1..Len(text)
    OBVIOUS
  <2> QED BY <2>1 DEF Spells
<1>1. PICK long : long = [j \in 1..Len(path) |-> Len(path[j])]
  OBVIOUS
<1>2. /\ Len(path) \in Nat /\ Len(text) \in Nat /\ k \in 1..long[i]
      /\ \A j \in 1..Len(path) : long[j] \in Nat /\ at[j] \in Nat
      /\ \A j, l \in 1..Len(path) : j < l => at[j] + long[j] < at[l]
  BY <1>1, SpellsFacts
<1>3. m > 0 => m \in 1..Len(path) /\ n - at[m] >= long[m]
  BY <1>1, <1>2
<1>4. CASE i > m
  <2>1. m + 1 \in 1..Len(path) /\ n < at[m + 1]
    BY <1>2, <1>4
  <2>2. PICK j : j = m + 1
    OBVIOUS
  <2>3. j \in 1..Len(path) /\ n < at[j] /\ at[j] \in Nat /\ long[j] \in Nat /\ j <= i
    BY <1>2, <1>4, <2>1, <2>2
  <2>4. at[i] \in Nat /\ (j < i => at[j] + long[j] < at[i])
    BY <1>2, <2>3
  <2>5. at[i] >= at[j] /\ at[i] \in Nat
    BY <2>3, <2>4
  <2>6. k \in Nat /\ k > 0
    BY <1>2
  <2> QED BY <2>3, <2>5, <2>6
<1>5. CASE i < m
  <2>1. at[i] + long[i] < at[m]
    BY <1>2, <1>3, <1>5
  <2>2. long[i] \in Nat /\ at[i] \in Nat /\ at[m] \in Nat /\ long[m] \in Nat
    BY <1>2, <1>3, <1>5
  <2>3. at[m] <= n /\ k \in Nat /\ k <= long[i]
    BY <1>2, <1>3, <1>5, <2>2
  <2> QED BY <2>1, <2>2, <2>3
<1>6. CASE i = m
  BY <1>2, <1>3, <1>6
<1> QED
  BY <1>2, <1>4, <1>5, <1>6

LEMMA ReadNext ==
  ASSUME NEW C, NEW text \in Seq(C), NEW S, NEW path \in Paths(S), Seq(STRING) \subseteq Seq(S),
         \A i \in 1..Len(path) : IsName(path[i])
  PROVE  \A at : Spells(text, path, at) =>
           \A n \in 0..(Len(text) - 1), w \in [at: Paths(S), name: Seq(C)], m \in 0..Len(path) :
             ReadTo(w, n, m, path, at) =>
               \E k \in 0..Len(path) : ReadTo(WalkOn(w, text[n + 1]), n + 1, k, path, at)
<1> SUFFICES ASSUME NEW at, Spells(text, path, at), NEW n \in 0..(Len(text) - 1),
                    NEW w \in [at: Paths(S), name: Seq(C)], NEW m \in 0..Len(path),
                    ReadTo(w, n, m, path, at)
             PROVE  \E k \in 0..Len(path) : ReadTo(WalkOn(w, text[n + 1]), n + 1, k, path, at)
  OBVIOUS
<1> DEFINE c == text[n + 1]
           v == WalkOn(w, c)
<1>1. Len(path) \in Nat /\ Len(text) \in Nat /\ n \in Nat /\ m \in Nat
  BY DEF Paths
<1>2. PICK a, long : a = [i \in 1..Len(path) |-> at[i]] /\ long = [i \in 1..Len(path) |-> Len(path[i])]
  OBVIOUS
<1>3. /\ \A i \in 1..Len(path) : /\ a[i] = at[i] /\ long[i] = Len(path[i]) /\ path[i] \in Seq(S)
                                 /\ a[i] \in Nat /\ long[i] \in Nat /\ long[i] > 0 /\ a[i] > 0
                                 /\ a[i] + long[i] <= Len(text)
      /\ \A i, j \in 1..Len(path) : i < j => a[i] + long[i] < a[j]
  BY <1>2, SpellsFacts
<1>4. /\ m > 0 => m \in 1..Len(path) /\ a[m] <= n
      /\ m < Len(path) => m + 1 \in 1..Len(path) /\ n < a[m + 1]
      /\ \/ /\ m > 0 /\ n - a[m] <= long[m]
            /\ w.name = SubSeq(path[m], 1, n - a[m])
            /\ SameWay(w.at, Under(path, m - 1))
         \/ /\ m > 0 => n - a[m] > long[m]
            /\ w.name = <<>>
            /\ SameWay(w.at, Under(path, m))
  <2>1. /\ m > 0 => m \in 1..Len(path)
        /\ m < Len(path) => m + 1 \in 1..Len(path)
    BY <1>1
  <2> QED BY <1>2, <2>1 DEF ReadTo
\* ReadTo again.
<1> DEFINE Fits(k) == /\ k > 0 => a[k] <= n + 1
                      /\ k < Len(path) => n + 1 < a[k + 1]
                      /\ \/ /\ k > 0 /\ (n + 1) - a[k] <= long[k]
                            /\ v.name = SubSeq(path[k], 1, (n + 1) - a[k])
                            /\ SameWay(v.at, Under(path, k - 1))
                         \/ /\ k > 0 => (n + 1) - a[k] > long[k]
                            /\ v.name = <<>>
                            /\ SameWay(v.at, Under(path, k))
<1>5. \A k \in 0..Len(path) : Fits(k) => ReadTo(v, n + 1, k, path, at)
  <2> SUFFICES ASSUME NEW k \in 0..Len(path), Fits(k) PROVE ReadTo(v, n + 1, k, path, at)
    OBVIOUS
  <2> HIDE DEF v
  <2>1. /\ k > 0 => k \in 1..Len(path)
        /\ k < Len(path) => k + 1 \in 1..Len(path)
    BY <1>1
  <2>2. /\ k > 0 => a[k] = at[k] /\ long[k] = Len(path[k])
        /\ k < Len(path) => a[k + 1] = at[k + 1]
    BY <1>2, <2>1
  <2>3. CASE k > 0
    BY <2>2, <2>3 DEF ReadTo
  <2>4. CASE ~(k > 0)
    BY <2>2, <2>4 DEF ReadTo
  <2> QED BY <2>3, <2>4
<1> HIDE DEF Fits
<1>6. w.at \in Seq(Seq(S))
  BY DEF Paths
\* Within a name.
<1>7. CASE m > 0 /\ n - a[m] < long[m]
  <2>1. PICK u, j : u = path[m] /\ j = n - a[m]
    OBVIOUS
  <2>2. m \in 1..Len(path) /\ u \in Seq(S) /\ Len(u) = long[m] /\ j \in 0..(Len(u) - 1) /\ a[m] + (j + 1) = n + 1
    <3>1. m \in 1..Len(path) /\ a[m] <= n
      BY <1>4, <1>7
    <3>2. a[m] \in Nat /\ long[m] \in Nat /\ u \in Seq(S) /\ Len(u) = long[m]
      BY <1>3, <2>1, <3>1
    <3> QED BY <1>1, <1>7, <2>1, <3>1, <3>2
  <2>3. c = u[j + 1] /\ c # "/"
    <3>1. j + 1 \in 1..Len(u) /\ at[m] + (j + 1) = n + 1
      BY <1>3, <2>2
    <3>2. /\ path[m][j + 1] = text[at[m] + (j + 1)]
          /\ path[m][j + 1] # "/"
      BY <2>1, <2>2, <3>1, Zenon DEF Spells
    <3> QED BY <2>1, <3>1, <3>2
  <2>4. v = [at |-> w.at, name |-> Append(w.name, c)]
    BY <2>3 DEF WalkOn
  <2>5. w.name = SubSeq(u, 1, j) /\ SameWay(w.at, Under(path, m - 1))
    <3>1. ~(n - a[m] > long[m])
      BY <1>1, <1>3, <1>7, <2>2
    <3> QED BY <1>4, <1>7, <2>1, <3>1
  <2>6. Append(w.name, c) = SubSeq(u, 1, j + 1)
    <3>1. SubSeq(u, 1, j + 1) = Append(SubSeq(u, 1, j), u[j + 1])
      BY <2>2, SubSeqNext
    <3> HIDE DEF c
    <3> QED BY <2>3, <2>5, <3>1
  <2>7. m < Len(path) => n + 1 < a[m + 1]
    <3> SUFFICES ASSUME m < Len(path) PROVE n + 1 # a[m + 1] /\ n < a[m + 1] /\ a[m + 1] \in Nat
      BY <1>1
    <3>1. m + 1 \in 1..Len(path) /\ n < a[m + 1]
      BY <1>4
    <3>2. text[at[m + 1]] = "/"
      BY <3>1, SpellsFacts
    <3> QED BY <1>3, <2>3, <3>1, <3>2
  <2>8. j + 1 = (n + 1) - a[m] /\ a[m] <= n + 1 /\ j + 1 <= long[m]
    <3>1. a[m] \in Nat /\ long[m] \in Nat /\ Len(u) = long[m] /\ a[m] + (j + 1) = n + 1
      BY <1>3, <2>2
    <3>2. j \in Nat /\ j + 1 <= long[m]
      BY <2>2, <3>1
    <3> QED BY <1>1, <3>1, <3>2
  <2>9. v.at = w.at /\ v.name = SubSeq(u, 1, j + 1)
    <3> HIDE DEF v
    <3> QED BY <2>4, <2>6
  <2> HIDE DEF v
  <2>10. Fits(m)
    BY <1>7, <2>1, <2>5, <2>7, <2>8, <2>9 DEF Fits
  <2> QED BY <1>5, <2>10 DEF v
\* At the slash after a name, or after a slash.
<1>8. CASE ~(m > 0 /\ n - a[m] < long[m])
  <2>1. m > 0 => n - a[m] >= long[m]
    BY <1>1, <1>3, <1>4, <1>8
  <2>2. c = "/"
    <3>1. m > 0 => n - at[m] >= Len(path[m])
      BY <1>3, <1>4, <2>1
    <3>2. m < Len(path) => n < at[m + 1]
      BY <1>3, <1>4
    <3> QED BY <3>1, <3>2, NextSlash
  <2>3. v = [at |-> Walk(w.at, w.name), name |-> <<>>]
    BY <2>2 DEF WalkOn
  <2>7. v.at = Walk(w.at, w.name) /\ v.name = <<>>
    BY <2>3
  <2> HIDE DEF v
  <2>4. SameWay(v.at, Under(path, m))
    <3>1. CASE w.name = <<>> /\ SameWay(w.at, Under(path, m))
      <4>1. <<>> \in Seq(S)
        OBVIOUS
      <4>2. SameWay(Walk(w.at, <<>>), Under(path, m))
        BY <1>6, <3>1, <4>1, WalkNowhere
      <4> QED BY <2>7, <3>1, <4>2
    <3>2. CASE /\ m > 0 /\ n - a[m] <= long[m]
               /\ w.name = SubSeq(path[m], 1, n - a[m])
               /\ SameWay(w.at, Under(path, m - 1))
      <4>1. PICK u : u = path[m]
        OBVIOUS
      <4>2. m \in 1..Len(path) /\ u \in Seq(S) /\ n - a[m] = Len(u)
        BY <1>1, <1>3, <1>4, <2>1, <3>2, <4>1
      <4>3. w.name = u
        <5>1. SubSeq(u, 1, Len(u)) = u
          BY <4>2
        <5> QED BY <3>2, <4>1, <4>2, <5>1
      <4>4. Under(path, m - 1) \in Seq(Seq(S)) /\ Append(Under(path, m - 1), u) = Under(path, m)
        BY <4>1, <4>2, UnderNext DEF Paths
      <4>5. IsName(u)
        BY <4>1, <4>2
      <4>6. SameWay(Walk(w.at, u), Append(Under(path, m - 1), u))
        BY <1>6, <3>2, <4>2, <4>4, <4>5, WalkName
      <4> QED BY <2>7, <4>3, <4>4, <4>6
    <3> QED BY <1>4, <3>1, <3>2
  <2>5. CASE m < Len(path) /\ a[m + 1] = n + 1
    <3>1. PICK k : k = m + 1
      OBVIOUS
    <3>2. k \in 1..Len(path) /\ k - 1 = m /\ a[k] = n + 1 /\ path[k] \in Seq(S) /\ long[k] \in Nat
      BY <1>1, <1>3, <2>5, <3>1
    <3>3. SubSeq(path[k], 1, 0) = <<>>
      BY <3>2
    <3>4. k < Len(path) => n + 1 < a[k + 1]
      <4> SUFFICES ASSUME k < Len(path) PROVE n + 1 < a[k + 1]
        OBVIOUS
      <4>1. k + 1 \in 1..Len(path) /\ k < k + 1
        BY <1>1, <3>2
      <4>2. a[k] + long[k] < a[k + 1] /\ a[k + 1] \in Nat
        BY <1>3, <3>2, <4>1
      <4> QED BY <1>1, <3>2, <4>2
    <3>5. v.name = <<>> /\ SameWay(v.at, Under(path, k - 1)) /\ (n + 1) - a[k] = 0 /\ k > 0 /\ a[k] <= n + 1
      BY <1>1, <2>4, <2>7, <3>2
    <3>6. k \in 0..Len(path)
      BY <3>2
    <3>7. Fits(k)
      BY <1>3, <3>2, <3>3, <3>4, <3>5 DEF Fits
    <3> QED BY <1>5, <3>6, <3>7 DEF v
  <2>6. CASE ~(m < Len(path) /\ a[m + 1] = n + 1)
    <3>1. m > 0 => (n + 1) - a[m] > long[m] /\ a[m] <= n + 1
      BY <1>1, <1>3, <1>4, <2>1
    <3>2. m < Len(path) => n + 1 < a[m + 1]
      BY <1>1, <1>3, <1>4, <2>6
    <3>3. Fits(m)
      BY <2>4, <2>7, <3>1, <3>2 DEF Fits
    <3> QED BY <1>5, <3>3 DEF v
  <2> QED BY <2>5, <2>6
<1> QED
  BY <1>7, <1>8

\* The last character of a text is that of the last name.
LEMMA LastName ==
  ASSUME NEW C, NEW text \in Seq(C), Len(text) > 1, text[Len(text)] # "/",
         NEW S, NEW path \in Seq(Seq(S))
  PROVE  \A at : Spells(text, path, at) =>
           /\ Len(path) > 0
           /\ Len(text) = at[Len(path)] + Len(path[Len(path)])
<1> SUFFICES ASSUME NEW at, Spells(text, path, at)
             PROVE  Len(path) > 0 /\ Len(text) = at[Len(path)] + Len(path[Len(path)])
  OBVIOUS
<1> DEFINE n == Len(text)
<1>1. Len(path) \in Nat /\ n \in Nat /\ n \in 1..n
  OBVIOUS
<1>2. PICK i \in 1..Len(path) : \E k \in 1..Len(path[i]) : n = at[i] + k
  BY <1>1, Zenon DEF Spells
<1>3. \A j \in 1..Len(path) :
        at[j] \in Nat /\ at[j] > 0 /\ Len(path[j]) \in Nat /\ at[j] + Len(path[j]) <= n
  BY SpellsFacts DEF Paths
<1>4. i = Len(path)
  <2> SUFFICES ASSUME i < Len(path) PROVE FALSE
    BY <1>1
  <2>1. i + 1 \in 1..Len(path) /\ i < i + 1
    BY <1>1
  <2>2. at[i] + Len(path[i]) < at[i + 1]
    BY <2>1, SpellsFacts DEF Paths
  <2>3. PICK a, long : a = at[i] /\ long = Len(path[i])
    OBVIOUS
  <2>4. a \in Nat /\ long \in Nat /\ n <= a + long
    BY <1>2, <1>3, <2>3
  <2>5. at[i + 1] \in Nat /\ at[i + 1] <= n
    <3>1. PICK j : j = i + 1
      OBVIOUS
    <3>2. at[j] \in Nat /\ Len(path[j]) \in Nat /\ at[j] + Len(path[j]) <= n
      BY <1>3, <2>1, <3>1
    <3> QED BY <1>1, <3>1, <3>2
  <2> QED BY <1>1, <2>2, <2>3, <2>4, <2>5
<1> QED
  BY <1>1, <1>2, <1>3, <1>4

\* The names of a text lead to the location under the root that has them, or
\* nothing can be reached there.
LEMMA PathReached ==
  ASSUME NEW C, NEW text \in Seq(C), Len(text) > 1, text[Len(text)] # "/", c_str(text) = text,
         NEW path \in Seq(Seq(STRING)), \A i \in 1..Len(path) : IsName(path[i])
  PROVE  \A at : Spells(text, path, at) =>
           \/ OnDisk(text) = Root \o path
           \/ Outside(OnDisk(text)) /\ Outside(Root \o path)
<1> SUFFICES ASSUME NEW at, Spells(text, path, at)
             PROVE  \/ OnDisk(text) = Root \o path
                    \/ Outside(OnDisk(text)) /\ Outside(Root \o path)
  OBVIOUS
<1> DEFINE S == C \cup STRING
           F == WalkOver(C)
           n == Len(text)
<1>1. Seq(C) \subseteq Seq(S) /\ Seq(STRING) \subseteq Seq(S)
  <2>1. C \subseteq S /\ STRING \subseteq S
    OBVIOUS
  <2> HIDE DEF S
  <2> QED BY <2>1, SeqMonotonic, Zenon
<1>2. path \in Seq(Seq(S)) /\ Len(path) \in Nat /\ n \in Nat
  <2> HIDE DEF S
  <2>1. path \in Seq(Seq(S))
    BY <1>1, SeqMonotonic, Zenon
  <2> QED BY <2>1
<1>3. Walks(C) \subseteq [at: Seq(Seq(S)), name: Seq(C)]
  <2>1. Seq(C) \cup Seq(STRING) \subseteq Seq(S)
    BY <1>1
  <2> HIDE DEF S
  <2>2. Seq(Seq(C) \cup Seq(STRING)) \subseteq Seq(Seq(S))
    BY <2>1, SeqMonotonic, Zenon
  <2> QED BY <2>2 DEF Walks
<1>4. PICK h : Values(h, F, AtRoot, text) /\ Folded(F, AtRoot, text) = h[n]
  BY <1>2, FoldedIsLast
<1>5. h[0] = AtRoot /\ \A k \in 0..(n - 1) : h[k + 1] = F[<<h[k], text[k + 1]>>]
  <2>1. DOMAIN text = 1..n
    OBVIOUS
  <2> HIDE DEF F
  <2> QED BY <1>2, <1>4, <2>1 DEF Values
<1> DEFINE P == {k \in 0..n : h[k] \in Walks(C) /\ \E m \in 0..Len(path) : ReadTo(h[k], k, m, path, at)}
<1>6. 0 \in P
  <2>1. AtRoot.name = <<>> /\ AtRoot.at = Root
    BY DEF AtRoot
  <2>2. Under(path, 0) = Root
    <3>1. SubSeq(path, 1, 0) = <<>>
      BY <1>2
    <3>2. PICK root : root = Root
      OBVIOUS
    <3>3. root \in Seq(Seq(STRING))
      BY <3>2, DiskAssumption
    <3>4. root \o <<>> = root
      BY <3>3
    <3> QED BY <3>1, <3>2, <3>4 DEF Under
  <2>3. 0 < Len(path) => 0 < at[1]
    BY <1>2 DEF Spells
  <2>4. ReadTo(AtRoot, 0, 0, path, at)
    BY <1>2, <2>1, <2>2, <2>3 DEF ReadTo, SameWay
  <2>5. AtRoot \in Walks(C)
    BY WalkOverType
  <2> QED BY <1>2, <1>5, <2>4, <2>5
<1>7. \A k \in 0..(n - 1) : k \in P => k + 1 \in P
  <2> SUFFICES ASSUME NEW k \in 0..(n - 1), h[k] \in Walks(C), NEW m \in 0..Len(path),
                      ReadTo(h[k], k, m, path, at)
               PROVE  k + 1 \in P
    OBVIOUS
  <2>1. text[k + 1] \in C /\ k + 1 \in 0..n
    BY <1>2
  <2>2. h[k + 1] = WalkOn(h[k], text[k + 1]) /\ h[k + 1] \in Walks(C)
    <3>1. h[k + 1] = F[<<h[k], text[k + 1]>>] /\ F \in [Walks(C) \X C -> Walks(C)]
      BY <1>5, WalkOverType
    <3> QED BY <2>1, <3>1 DEF WalkOver
  <2>3. \E j \in 0..Len(path) : ReadTo(WalkOn(h[k], text[k + 1]), k + 1, j, path, at)
    <3> HIDE DEF S
    <3> QED BY <1>1, <1>2, <1>3, ReadNext DEF Paths
  <2> QED BY <2>1, <2>2, <2>3
<1>8. n \in P
  <2>1. n \in 0..n
    BY <1>2
  <2> HIDE DEF P, n
  <2> QED BY <1>2, <1>6, <1>7, <2>1, UptoInduction
<1>9. PICK w, m : w = h[n] /\ w \in Walks(C) /\ m \in 0..Len(path) /\ ReadTo(w, n, m, path, at)
  BY <1>8
<1>10. OnDisk(text) = Walk(w.at, w.name)
  BY <1>4, <1>9, OnDiskFolds
<1> HIDE DEF F, P
<1>11. Len(path) > 0 /\ n = at[Len(path)] + Len(path[Len(path)])
  BY <1>2, LastName
<1>12. \A j \in 1..Len(path) :
         at[j] \in Nat /\ at[j] > 0 /\ Len(path[j]) \in Nat /\ at[j] + Len(path[j]) <= n
         /\ at[j] <= n
  BY SpellsFacts DEF Paths
<1>13. m = Len(path) /\ m > 0 /\ n - at[m] = Len(path[m])
  <2>2. m = Len(path)
    <3> SUFFICES ASSUME m < Len(path) PROVE FALSE
      BY <1>2, <1>9
    <3>1. m + 1 \in 1..Len(path) /\ n < at[m + 1]
      BY <1>2, <1>9 DEF ReadTo
    <3> QED BY <1>2, <1>12, <3>1
  <2>3. at[m] \in Nat /\ Len(path[m]) \in Nat
    BY <1>2, <1>11, <1>12, <2>2
  <2> QED BY <1>11, <2>2, <2>3
<1>14. w.name = SubSeq(path[m], 1, Len(path[m])) /\ SameWay(w.at, Under(path, m - 1))
  <2>1. ~(n - at[m] > Len(path[m]))
    BY <1>12, <1>13
  <2> QED BY <1>9, <1>13, <2>1 DEF ReadTo
<1>15. m \in 1..Len(path)
  BY <1>2, <1>13
<1>16. w.name = path[m]
  <2>1. PICK u : u = path[m]
    OBVIOUS
  <2>2. u \in Seq(STRING)
    BY <1>15, <2>1
  <2>3. SubSeq(u, 1, Len(u)) = u
    BY <2>2
  <2> QED BY <1>14, <2>1, <2>3
<1>17. Under(path, m) = Root \o path
  <2>1. SubSeq(path, 1, Len(path)) = path
    OBVIOUS
  <2> QED BY <1>13, <2>1 DEF Under
<1> QED
  <2> HIDE DEF S
  <2>1. /\ Under(path, m - 1) \in Seq(Seq(S)) /\ path[m] \in Seq(S)
        /\ Append(Under(path, m - 1), path[m]) = Under(path, m)
    BY <1>1, <1>2, <1>15, UnderNext
  <2>2. w.at \in Seq(Seq(S)) /\ IsName(path[m])
    BY <1>3, <1>9, <1>15
  <2>3. \/ Walk(w.at, path[m]) = Root \o path
        \/ Outside(Walk(w.at, path[m])) /\ Outside(Root \o path)
    <3>1. PICK x, y, name : x = w.at /\ y = Under(path, m - 1) /\ name = path[m]
      OBVIOUS
    <3>2. /\ x \in Seq(Seq(S)) /\ y \in Seq(Seq(S)) /\ name \in Seq(S) /\ SameWay(x, y) /\ IsName(name)
          /\ Append(y, name) = Root \o path
      BY <1>14, <1>17, <2>1, <2>2, <3>1
    <3>3. \/ Walk(x, name) = Append(y, name)
          \/ Outside(Walk(x, name)) /\ Outside(Append(y, name))
      BY <3>2, WalkName
    <3> QED BY <3>1, <3>2, <3>3
  <2> QED BY <1>10, <1>16, <2>3

-----------------------------------------------------------------------------
\* The last c in s, or 0.
LEMMA LastOfFacts ==
  ASSUME NEW C, NEW s \in Seq(C), NEW c
  PROVE  /\ LastOf(s, c) \in 0..Len(s)
         /\ LastOf(s, c) > 0 => s[LastOf(s, c)] = c
         /\ \A i \in 1..Len(s) : s[i] = c => i <= LastOf(s, c)
<1> DEFINE S == {i \in 1..Len(s) : s[i] = c}
<1>1. CASE S = {}
  <2>1. {0} \cup {i \in 1..Len(s) : s[i] = c} = {0}
    BY <1>1
  <2>2. Max({0}) = 0
    BY DEF Max
  <2>3. LastOf(s, c) = 0
    BY <2>1, <2>2 DEF LastOf
  <2> QED BY <1>1, <2>3
<1>2. CASE S # {}
  <2>1. S \in SUBSET (1..Len(s)) /\ Len(s) \in Nat
    OBVIOUS
  <2>2. Max(S) \in S /\ \A y \in S : y <= Max(S)
    <3> HIDE DEF S
    <3> QED BY <1>2, <2>1, MaxIsLargest
  <2>3. LastOf(s, c) = Max(S)
    <3>1. PICK m : m = Max(S)
      OBVIOUS
    <3>2. m \in 1..Len(s) /\ s[m] = c /\ \A i \in 1..Len(s) : s[i] = c => i <= m
      BY <2>2, <3>1
    <3> HIDE DEF S
    <3> QED BY <2>1, <3>1, <3>2, LastOfIs
  <2> QED BY <2>2, <2>3
<1> QED
  BY <1>1, <1>2

\* The extension of a name is e when the name ends in a point and e.
LEMMA ExtensionIs ==
  ASSUME NEW C, NEW path \in Seq(C), Len(path) > 1, path[1] = "/"
  PROVE  \A e : e \notin {".", "/"} => (Extension(path) = <<e>> <=> Ends(path, {e}))
<1> SUFFICES ASSUME NEW e, e \notin {".", "/"}
             PROVE  Extension(path) = <<e>> <=> Ends(path, {e})
  OBVIOUS
<1> DEFINE n == Len(path)
           point == LastOf(path, ".")
           slash == LastOf(path, "/")
<1>1. /\ point \in 0..n /\ (point > 0 => path[point] = ".")
      /\ \A i \in 1..n : path[i] = "." => i <= point
  BY LastOfFacts
<1>2. /\ slash \in 0..n /\ (slash > 0 => path[slash] = "/")
      /\ \A i \in 1..n : path[i] = "/" => i <= slash
  BY LastOfFacts
<1>3. Extension(path) = IF point > slash THEN SubSeq(path, point + 1, n) ELSE <<>>
  BY DEF Extension
<1>4. n \in Nat
  OBVIOUS
<1>5. point > slash => /\ Len(SubSeq(path, point + 1, n)) = n - point
                       /\ n > point => SubSeq(path, point + 1, n)[1] = path[point + 1]
  <2> HIDE DEF point, slash
  <2> QED BY <1>1, <1>2
<1> HIDE DEF point, slash
<1>6. ASSUME Extension(path) = <<e>> PROVE Ends(path, {e})
  <2>1. Len(<<e>>) = 1 /\ <<e>>[1] = e /\ <<e>> # <<>>
    OBVIOUS
  <2>2. point > slash /\ n - point = 1
    BY <1>3, <1>5, <1>6, <2>1
  <2>3. path[point] = "." /\ path[n] = e /\ n - 1 = point /\ n > 1
    BY <1>1, <1>2, <1>3, <1>5, <1>6, <2>1, <2>2
  <2> QED BY <2>3 DEF Ends
<1>7. ASSUME Ends(path, {e}) PROVE Extension(path) = <<e>>
  <2>1. n > 1 /\ path[n - 1] = "." /\ path[n] = e
    BY <1>7 DEF Ends
  <2>2. point = n - 1
    <3>1. n - 1 \in 1..n /\ n \in 1..n
      BY <2>1
    <3>2. point >= n - 1 /\ point # n
      BY <1>1, <2>1, <3>1
    <3> QED BY <1>1, <3>2
  <2>3. slash < n - 1
    <3>1. slash # n - 1 /\ slash # n
      BY <1>2, <2>1
    <3> QED BY <1>2, <2>1, <3>1
  <2>4. SubSeq(path, point + 1, n) = <<e>>
    <3>1. point + 1 = n /\ n \in 1..n
      BY <2>1, <2>2
    <3>2. SubSeq(path, n, n) = <<path[n]>>
      <4>1. PICK m : m = n
        OBVIOUS
      <4>2. m \in 1..Len(path) /\ \A i \in m..m : path[i] \in C
        BY <3>1, <4>1
      <4> HIDE DEF n
      <4>3. /\ SubSeq(path, m, m) \in Seq(C) /\ Len(SubSeq(path, m, m)) = 1
            /\ SubSeq(path, m, m)[1] = path[m]
        BY <4>2
      <4>4. \A w \in Seq(C) : Len(w) = 1 => w = <<w[1]>>
        OBVIOUS
      <4>5. SubSeq(path, m, m) = <<path[m]>>
        BY <4>3, <4>4
      <4> QED BY <4>1, <4>5
    <3> QED BY <2>1, <3>1, <3>2
  <2> QED BY <1>3, <2>2, <2>3, <2>4
<1> QED
  BY <1>6, <1>7

\* The end of a text is that of its last name.
LEMMA TextEnds ==
  ASSUME NEW C, NEW text \in Seq(C), Len(text) > 1, text[Len(text)] # "/",
         NEW path \in Seq(Seq(STRING)), Names(text, path)
  PROVE  \A E : Ends(Last(Root \o path), E) <=> Ends(text, E)
<1> DEFINE n == Len(text)
           p == Len(path)
           name == path[p]
           long == Len(name)
<1>1. PICK at : Spells(text, path, at)
  BY NamesSpelled
<1>2. p > 0 /\ n = at[p] + long
  BY <1>1, LastName
<1>3. p \in 1..p /\ name \in Seq(STRING) /\ n \in Nat
  BY <1>2
<1>4. /\ at[p] \in Nat /\ text[at[p]] = "/" /\ long \in Nat /\ long > 0
      /\ \A k \in 1..long : name[k] = text[at[p] + k]
  <2>1. at[p] \in Nat /\ text[at[p]] = "/" /\ long \in Nat /\ long > 0
    BY <1>1, <1>3, SpellsFacts DEF Paths
  <2> HIDE DEF n, long
  <2>2. \A k \in 1..Len(name) : name[k] = text[at[p] + k]
    BY <1>1, <1>3, Zenon DEF Spells
  <2> QED BY <2>1, <2>2 DEF long
<1>5. Last(Root \o path) = name
  <2>1. PICK root : root = Root
    OBVIOUS
  <2>2. root \in Seq(Seq(STRING))
    BY <2>1, DiskAssumption
  <2> QED BY <1>2, <2>1, <2>2 DEF Last
<1>6. PICK u, l, b : u = name /\ l = long /\ b = at[p]
  OBVIOUS
<1>7. /\ Last(Root \o path) = u /\ Len(u) = l /\ n = b + l /\ l \in Nat /\ l > 0 /\ b \in Nat
      /\ text[b] = "/" /\ \A k \in 1..l : u[k] = text[b + k]
  BY <1>2, <1>4, <1>5, <1>6
<1> HIDE DEF n, p, name, long
<1>8. u[l] = text[n]
  BY <1>7
<1>9. CASE l > 1
  <2>1. l - 1 \in 1..l /\ b + (l - 1) = n - 1
    BY <1>7, <1>9
  <2>2. u[l - 1] = text[n - 1]
    BY <1>7, <2>1
  <2>3. n > 1
    BY <1>7, <1>9
  <2> QED BY <1>7, <1>8, <1>9, <2>2, <2>3 DEF Ends, n
<1>10. CASE l = 1
  <2>1. n - 1 = b
    BY <1>7, <1>10
  <2> QED BY <1>7, <1>10, <2>1 DEF Ends, n
<1> QED
  BY <1>7, <1>9, <1>10

\* A file is sent as what the end of its name says.
LEMMA SentIs ==
  ASSUME NEW C, NEW path \in Seq(C), Len(path) > 1, path[1] = "/", path[Len(path)] # "/",
         NEW to \in Seq(Seq(STRING)), Names(path, to), OnDisk(path) = Root \o to
  PROVE  Sent(path) = AsNamed(Root \o to)
<1> DEFINE disk == Last(Root \o to)
           ends(e) == Ends(disk, {e})
<1>2. \A E : Ends(disk, E) <=> Ends(path, E)
  BY TextEnds
<1>3. \A e : e \notin {".", "/"} => (Extension(path) = <<e>> <=> Ends(disk, {e}))
  <2>1. \A e : e \notin {".", "/"} => (Extension(path) = <<e>> <=> Ends(path, {e}))
    BY ExtensionIs
  <2> HIDE DEF disk
  <2> QED BY <1>2, <2>1
<1>4. /\ Ends(disk, {"htm", "html", "md"}) <=> ends("htm") \/ ends("html") \/ ends("md")
      /\ Ends(disk, {"jpg", "jpeg"}) <=> ends("jpg") \/ ends("jpeg")
      /\ Ends(disk, {"jpg", "png", "jpeg"}) <=> ends("jpg") \/ ends("png") \/ ends("jpeg")
  BY DEF Ends
<1>5. PICK x : x = Extension(path)
  OBVIOUS
<1>6. /\ x = <<"gif">> <=> ends("gif")
      /\ x = <<"htm">> <=> ends("htm")
      /\ x = <<"html">> <=> ends("html")
      /\ x = <<"md">> <=> ends("md")
      /\ x = <<"jpg">> <=> ends("jpg")
      /\ x = <<"jpeg">> <=> ends("jpeg")
      /\ x = <<"png">> <=> ends("png")
  <2>1. \A e : e \notin {".", "/"} => (x = <<e>> <=> ends(e))
    BY <1>3, <1>5
  <2> HIDE DEF ends
  <2> QED BY <2>1
<1>7. Sent(path) =
        [path |-> Root \o to, type |-> extension2type(IF x = <<"md">> THEN <<"html">> ELSE x),
         rendered |-> x = <<"md">>, is_image |-> x \in {<<"jpg">>, <<"png">>, <<"jpeg">>}]
  BY <1>5 DEF Sent
<1>8. AsNamed(Root \o to).type = extension2type(IF x = <<"md">> THEN <<"html">> ELSE x)
  <2> HIDE DEF ends
  <2>1. AsNamed(Root \o to).type =
          CASE ends("gif") -> "image/gif"
            [] ends("htm") \/ ends("html") \/ ends("md") -> "text/html"
            [] ends("jpg") \/ ends("jpeg") -> "image/jpeg"
            [] ends("png") -> "image/png"
            [] OTHER -> "text/plain"
    BY <1>4 DEF AsNamed, ends
  <2>2. /\ <<"gif">> # <<"htm">> /\ <<"gif">> # <<"html">> /\ <<"gif">> # <<"md">>
        /\ <<"gif">> # <<"jpg">> /\ <<"gif">> # <<"jpeg">> /\ <<"gif">> # <<"png">>
        /\ <<"jpg">> # <<"htm">> /\ <<"jpg">> # <<"html">> /\ <<"jpg">> # <<"md">>
        /\ <<"jpeg">> # <<"htm">> /\ <<"jpeg">> # <<"html">> /\ <<"jpeg">> # <<"md">>
        /\ <<"png">> # <<"htm">> /\ <<"png">> # <<"html">> /\ <<"png">> # <<"md">>
        /\ <<"jpg">> # <<"jpeg">> /\ <<"png">> # <<"jpg">> /\ <<"png">> # <<"jpeg">>
        /\ <<"html">> # <<"md">> /\ <<"htm">> # <<"md">> /\ <<"htm">> # <<"html">>
    OBVIOUS
  <2>3. PICK y : y = (IF x = <<"md">> THEN <<"html">> ELSE x)
    OBVIOUS
  <2>4. extension2type(y) = AsNamed(Root \o to).type
    BY <1>6, <2>1, <2>2, <2>3 DEF extension2type
  <2> QED BY <2>3, <2>4
<1>9. AsNamed(Root \o to) =
        [path |-> Root \o to, type |-> AsNamed(Root \o to).type,
         rendered |-> ends("md"), is_image |-> Ends(disk, {"jpg", "png", "jpeg"})]
  BY DEF AsNamed
<1>10. (x = <<"md">>) = ends("md")
  BY <1>6 DEF Ends
<1>11. (x \in {<<"jpg">>, <<"png">>, <<"jpeg">>}) = Ends(disk, {"jpg", "png", "jpeg"})
  <2>1. x \in {<<"jpg">>, <<"png">>, <<"jpeg">>} <=> Ends(disk, {"jpg", "png", "jpeg"})
    <3> HIDE DEF ends
    <3> QED BY <1>4, <1>6
  <2> QED BY <2>1 DEF Ends
<1> HIDE DEF disk, ends
<1> QED
  BY <1>7, <1>8, <1>9, <1>10, <1>11

-----------------------------------------------------------------------------
\* Under a prefix without escapes, the path is what the client means.
LEMMA PathMeant ==
  ASSUME NEW r \in Requests, r.handler = "file", \A i \in 1..Len(r.prefix) : ~IsEscape(r.prefix[i])
  PROVE  FilePath(r) = Meant(r)
<1>1. r.prefix \in Seq(STRING) /\ r.uri \in Seq(STRING) /\ Len(r.prefix) <= Len(r.uri)
  BY RequestsAssumption DEF IsPrefix
<1>2. Characters(r.prefix) = Len(r.prefix)
  BY <1>1, CharactersPlain
<1>3. AfterPrefix(r) = uri_decode(SubSeq(r.uri, Len(r.prefix) + 1, Len(r.uri)))
  <2>1. PICK p, q, uri : p = Len(r.prefix) /\ uri = r.uri /\ q = Len(uri)
    OBVIOUS
  <2>2. uri \in Seq(STRING) /\ p \in Nat /\ q \in Nat /\ p <= q
    BY <1>1, <2>1
  <2>3. uri_decode(uri) = [i \in 1..q |-> Decoded(uri[i])]
    BY <2>1 DEF uri_decode
  <2>4. SubSeq(uri_decode(uri), p + 1, q) = [i \in 1..(q - p) |-> Decoded(uri[i + p])]
    BY <2>2, <2>3 DEF SubSeq
  <2>5. PICK below : below = SubSeq(uri, p + 1, q)
    OBVIOUS
  <2>7. Len(below) = q - p /\ \A i \in 1..(q - p) : below[i] = uri[i + p]
    BY <2>2, <2>5
  <2>6. uri_decode(below) = [i \in 1..(q - p) |-> Decoded(uri[i + p])]
    BY <2>7 DEF uri_decode
  <2> QED BY <1>2, <2>1, <2>4, <2>5, <2>6 DEF AfterPrefix
<1>4. PICK below : below = AfterPrefix(r)
  OBVIOUS
<1>5. \E S : <<"/">> \o below \in Seq(S)
  <2> DEFINE D == {Decoded(c) : c \in STRING}
  <2>1. PICK w : w = SubSeq(r.uri, Len(r.prefix) + 1, Len(r.uri))
    OBVIOUS
  <2>2. w \in Seq(STRING)
    BY <1>1, <2>1
  <2>3. \A i \in 1..Len(w) : Decoded(w[i]) \in D
    BY <2>2
  <2>4. below = [i \in 1..Len(w) |-> Decoded(w[i])]
    BY <1>3, <1>4, <2>1 DEF uri_decode
  <2> HIDE DEF D
  <2>5. below \in Seq(D)
    BY <2>2, <2>3, <2>4
  <2>6. below \in Seq(D \cup {"/"})
    BY <2>5, SeqMonotonic, Zenon
  <2>7. <<"/">> \in Seq(D \cup {"/"})
    OBVIOUS
  <2> QED BY <2>6, <2>7
<1>6. (<<"/">> \o below) \o <<>> = <<"/">> \o below
  BY <1>5
<1> QED
  BY <1>3, <1>4, <1>6 DEF FilePath, Meant

\* What the client means is a rooted path that ends in no slash.
LEMMA MeantPath ==
  ASSUME NEW r \in Requests, r.handler = "file"
  PROVE  \E C : /\ Meant(r) \in Seq(C) /\ Len(Meant(r)) > 1
                /\ Meant(r)[1] = "/" /\ Meant(r)[Len(Meant(r))] # "/"
<1> DEFINE D == {Decoded(c) : c \in STRING}
           C == D \cup {"/", "index", ".", "html"}
<1>1. r.prefix \in Seq(STRING) /\ r.uri \in Seq(STRING) /\ Len(r.prefix) <= Len(r.uri)
  BY RequestsAssumption DEF IsPrefix
<1>2. PICK w : w = SubSeq(r.uri, Len(r.prefix) + 1, Len(r.uri))
  OBVIOUS
<1>3. w \in Seq(STRING)
  BY <1>1, <1>2
<1>4. uri_decode(w) \in Seq(D)
  <2>1. \A i \in 1..Len(w) : Decoded(w[i]) \in D
    BY <1>3
  <2> HIDE DEF D
  <2> QED BY <1>3, <2>1 DEF uri_decode
<1>5. uri_decode(w) \in Seq(C)
  <2>1. D \subseteq C
    OBVIOUS
  <2> HIDE DEF D, C
  <2> QED BY <1>4, <2>1, SeqMonotonic, Zenon
<1>6. PICK text : text = <<"/">> \o uri_decode(w)
  OBVIOUS
<1>7. "/" \in C /\ <<"/">> \in Seq(C) /\ <<"index", ".", "html">> \in Seq(C)
  <2> HIDE DEF D
  <2> QED OBVIOUS
<1> HIDE DEF D, C
<1>8. text \in Seq(C) /\ Len(text) > 0 /\ text[1] = "/"
  <2>1. PICK below : below = uri_decode(w)
    OBVIOUS
  <2>2. below \in Seq(C) /\ text = <<"/">> \o below
    BY <1>5, <1>6, <2>1
  <2> QED BY <1>7, <2>2
<1>9. Meant(r) = text \o IF Last(text) = "/" THEN <<"index", ".", "html">> ELSE <<>>
  BY <1>2, <1>6 DEF Meant
<1>10. CASE text[Len(text)] = "/"
  <2>1. Meant(r) = text \o <<"index", ".", "html">>
    BY <1>9, <1>10 DEF Last
  <2>2. text \o <<"index", ".", "html">> \in Seq(C)
    BY <1>7, <1>8
  <2>3. /\ Len(text \o <<"index", ".", "html">>) = Len(text) + 3
        /\ (text \o <<"index", ".", "html">>)[1] = "/"
        /\ (text \o <<"index", ".", "html">>)[Len(text) + 3] = "html"
    BY <1>8
  <2> QED BY <1>8, <2>1, <2>2, <2>3
<1>11. CASE text[Len(text)] # "/"
  <2>1. Meant(r) = text
    BY <1>8, <1>9, <1>11 DEF Last
  <2> QED BY <1>8, <1>11, <2>1
<1> QED
  BY <1>10, <1>11

\* The file found is the one meant, and what is sent is what it is.
LEMMA FileMeant ==
  ASSUME NEW r \in Requests, r.handler = "file", Decodes(r.uri), Plain(r),
         OnDisk(FilePath(r)) \in Files \/ r.names.path \in Files
  PROVE  OnDisk(FilePath(r)) = r.names.path /\ Sent(FilePath(r)) = r.names
<1>1. FilePath(r) = Meant(r)
  BY PathMeant DEF Plain
<1>2. PICK C : /\ Meant(r) \in Seq(C) /\ Len(Meant(r)) > 1
               /\ Meant(r)[1] = "/" /\ Meant(r)[Len(Meant(r))] # "/"
  BY MeantPath
<1>3. /\ r.names.path \in Seq(Seq(STRING)) /\ IsPrefix(Root, r.names.path)
      /\ Names(Meant(r), Below(r)) /\ r.names = AsNamed(r.names.path)
  BY NamesAssumption
<1>4. PICK path, file, to : path = Meant(r) /\ file = r.names.path /\ to = Below(r)
  OBVIOUS
<1>5. to \in Seq(Seq(STRING)) /\ file = Root \o to
  <2>1. PICK root : root = Root
    OBVIOUS
  <2>2. root \in Seq(Seq(STRING)) /\ file \in Seq(Seq(STRING)) /\ to = SubSeq(file, Len(root) + 1, Len(file))
    BY <1>3, <1>4, <2>1, DiskAssumption DEF Below
  <2>3. Len(root) <= Len(file) /\ \A i \in 1..Len(root) : root[i] = file[i]
    BY <1>3, <1>4, <2>1, <2>2 DEF IsPrefix
  <2>4. to \in Seq(Seq(STRING)) /\ Len(to) = Len(file) - Len(root)
        /\ \A i \in 1..Len(to) : to[i] = file[i + Len(root)]
    BY <2>2, <2>3
  <2>5. PICK all : all = root \o to
    OBVIOUS
  <2>6. all \in Seq(Seq(STRING)) /\ Len(all) = Len(file) /\ \A i \in 1..Len(file) : all[i] = file[i]
    BY <2>2, <2>3, <2>4, <2>5
  <2>7. all = file
    BY <2>2, <2>6, SeqEqual
  <2> QED BY <2>1, <2>4, <2>5, <2>7
<1>6. \A i \in 1..Len(to) : IsName(to[i])
  BY <1>4 DEF Plain
<1>7. path \in Seq(C) /\ Len(path) > 1 /\ path[1] = "/" /\ path[Len(path)] # "/" /\ Names(path, to)
  BY <1>2, <1>3, <1>4
<1>8. PICK at : Spells(path, to, at)
  BY <1>7, NamesSpelled
<1>9. c_str(path) = path
  <2> SUFFICES ASSUME NEW n \in 1..Len(path), path[n] = "nul" PROVE FALSE
    BY NothingCut
  <2>1. PICK i \in 1..Len(to) : \E k \in 1..Len(to[i]) : n = at[i] + k
    BY <1>8, Zenon DEF Spells
  <2>2. PICK k \in 1..Len(to[i]) : to[i][k] = "nul"
    <3>1. PICK k \in 1..Len(to[i]) : n = at[i] + k
      BY <2>1
    <3>2. to[i][k] = path[at[i] + k]
      BY <1>8, Zenon DEF Spells
    <3> QED BY <3>1, <3>2
  <2> QED BY <1>6, <2>2 DEF IsName
<1>10. OnDisk(path) = file \/ (Outside(OnDisk(path)) /\ Outside(file))
  BY <1>5, <1>6, <1>7, <1>8, <1>9, PathReached
<1>11. OnDisk(path) = file
  BY <1>1, <1>4, <1>10 DEF Outside
<1>12. Sent(path) = AsNamed(file)
  BY <1>5, <1>7, <1>11, SentIs
<1> QED
  BY <1>1, <1>3, <1>4, <1>11, <1>12

\* What FilesRight says of one frame.
FileRight(f) ==
  f.request.handler = "file" /\ Decodes(f.request.uri) /\ Plain(f.request)
    => /\ f.page = "file" => f.sent = f.request.names
       /\ f.page = "not found" => f.request.names.path \notin Files

LEMMA FileStepRight ==
  ASSUME IndInv, NEW t \in Threads, FileStep(t)
  PROVE  FileRight(frame'[t])
<1>1. TypeOK /\ Good(frame[t], pc[t], told, table, failed)
  BY IndInvParts DEF AllGood
<1>2. frame[t] \in FrameType /\ frame \in [Threads -> FrameType]
  BY <1>1 DEF TypeOK
<1>3. PICK r : r = Request(t)
  OBVIOUS
<1>4. r \in Requests /\ r.handler = "file"
  <2>1. r.handler = "file"
    BY <1>1, <1>3 DEF FileStep, FileBadRequest, FileOutOfRange, FileThrows, FileNotFound, FileFound, Good, Request
  <2>2. r \in Requests \cup {NoRequest}
    BY <1>2, <1>3 DEF FrameType, Request
  <2> QED BY <2>1, <2>2 DEF NoRequest
<1>5. frame'[t].request = r
  <2>1. CASE FileBadRequest(t) \/ FileNotFound(t)
    BY <1>2, <1>3, <2>1 DEF FileBadRequest, FileNotFound, Return, Request, FrameType
  <2>2. CASE FileOutOfRange(t) \/ FileThrows(t)
    BY <1>3, <2>2 DEF FileOutOfRange, FileThrows, Request
  <2>3. CASE FileFound(t)
    BY <1>2, <1>3, <2>3 DEF FileFound, Request, FrameType
  <2> QED BY <2>1, <2>2, <2>3 DEF FileStep
<1>6. pc[t] = "file" /\ frame[t].page = "none"
  BY <1>1 DEF FileStep, FileBadRequest, FileOutOfRange, FileThrows, FileNotFound, FileFound, Good
<1>7. CASE ~Decodes(r.uri) \/ ~Plain(r)
  BY <1>5, <1>7 DEF FileRight
<1>8. CASE Decodes(r.uri) /\ Plain(r)
  <2>1. OnDisk(FilePath(r)) \in Files \/ r.names.path \in Files
          => OnDisk(FilePath(r)) = r.names.path /\ Sent(FilePath(r)) = r.names
    BY <1>4, <1>8, FileMeant
  <2>2. CASE FileBadRequest(t)
    <3>1. frame'[t].page = "bad request"
      BY <1>2, <2>2 DEF FileBadRequest, Return, FrameType
    <3> QED BY <3>1 DEF FileRight
  <2>3. CASE FileOutOfRange(t) \/ FileThrows(t)
    <3>1. frame'[t].page = "none"
      BY <1>6, <2>3 DEF FileOutOfRange, FileThrows
    <3> QED BY <3>1 DEF FileRight
  <2>4. CASE FileNotFound(t)
    <3>1. frame'[t].page = "not found"
      BY <1>2, <2>4 DEF FileNotFound, Return, FrameType
    <3>2. OnDisk(FilePath(r)) \notin Files
      BY <1>3, <2>4 DEF FileNotFound
    <3>3. r.names.path \notin Files
      BY <2>1, <3>2
    <3> QED BY <1>5, <3>1, <3>3 DEF FileRight
  <2>5. CASE FileFound(t)
    <3>1. frame'[t].page = "file" /\ frame'[t].sent = Sent(FilePath(r))
      BY <1>2, <1>3, <2>5 DEF FileFound, FrameType
    <3>2. OnDisk(FilePath(r)) \in Files
      BY <1>3, <2>5 DEF FileFound
    <3> QED BY <1>5, <2>1, <3>1, <3>2 DEF FileRight
  <2> QED BY <2>2, <2>3, <2>4, <2>5 DEF FileStep
<1> QED
  BY <1>7, <1>8

\* The other handlers have requests that are not for files.
LEMMA StepRight ==
  ASSUME IndInv, NEW t \in Threads, Step(t), FileRight(frame[t])
  PROVE  FileRight(frame'[t])
<1>1. TypeOK /\ Good(frame[t], pc[t], told, table, failed)
  BY IndInvParts DEF AllGood
<1>2. frame[t] \in FrameType /\ frame \in [Threads -> FrameType]
  BY <1>1 DEF TypeOK
<1>3. CASE \E r \in Requests : Arrive(t, r)
  <2>1. frame'[t].page = "none"
    BY <1>2, <1>3 DEF Arrive, Fresh
  <2> QED BY <2>1 DEF FileRight
<1>4. CASE DbStep(t)
  <2>1. frame[t].request.handler = "db"
    BY <1>1, <1>4 DEF DbStep, DbBadRequest, DbConnectThrows, DbConnect, QueryTable, UpdateTable,
      DbStatementThrows, DbDelete, Good, DbSteps
  <2>2. frame'[t].request = frame[t].request
    BY <1>2, <1>4 DEF DbStep, DbBadRequest, DbConnectThrows, DbConnect, QueryTable, UpdateTable,
      DbStatementThrows, DbDelete, Return, Connect, FrameType
  <2> QED BY <2>1, <2>2 DEF FileRight
<1>5. CASE PyStep(t)
  <2>1. frame[t].request.handler = "python"
    BY <1>1, <1>5 DEF PyStep, PyBadRequest, PyInitialize, PyImport, PyConnectRaises, PyConnect,
      PyExecute, PyExecuteRaises, PyCommit, PyRelease, PyNoString, PyFault, Inside, Good, PythonSteps
  <2>2. frame'[t].request = frame[t].request
    <3>1. CASE PyInitialize(t) \/ PyImport(t) \/ PyConnectRaises(t) \/ PyExecuteRaises(t)
               \/ PyNoString(t) \/ PyFault(t)
      BY <3>1 DEF PyInitialize, PyImport, PyConnectRaises, PyExecuteRaises, PyNoString, PyFault
    <3>2. CASE PyBadRequest(t) \/ PyConnect(t) \/ PyCommit(t) \/ PyRelease(t)
      BY <1>2, <3>2 DEF PyBadRequest, PyConnect, PyCommit, PyRelease, Return, Connect, FrameType
    <3>3. CASE PyExecute(t)
      <4>1. \E p, q : frame' = [frame EXCEPT ![t].page = p, ![t].seen = q]
        BY <3>3 DEF PyExecute
      <4> QED BY <1>2, <4>1 DEF FrameType
    <3> QED BY <1>5, <3>1, <3>2, <3>3 DEF PyStep
  <2> QED BY <2>1, <2>2 DEF FileRight
<1>6. CASE FileStep(t)
  BY <1>6, FileStepRight
<1> QED
  BY <1>3, <1>4, <1>5, <1>6 DEF Step

\* A URI whose names are names a directory can have, under a prefix without
\* escapes, gets the file it is meant to name, as what that file's name says it is,
\* and a 404 only when there is none.
THEOREM RightFiles == Spec => []FilesRight
<1>1. FilesRight <=> \A t \in Threads : FileRight(frame[t])
  BY DEF FilesRight, FileRight, Request
<1>2. Init => FilesRight
  <2> SUFFICES ASSUME Init, NEW t \in Threads PROVE Request(t).handler # "file"
    BY DEF FilesRight
  <2>1. frame[t].request = NoRequest
    BY DEF Init, Fresh
  <2> QED BY <2>1 DEF Request, NoRequest
<1>3. IndInv /\ FilesRight /\ [Next]_vars => FilesRight'
  <2> SUFFICES ASSUME IndInv, FilesRight, [Next]_vars, NEW u \in Threads
               PROVE  FileRight(frame'[u])
    BY DEF FilesRight, FileRight, Request
  <2>1. FileRight(frame[u])
    BY <1>1
  <2>2. CASE UNCHANGED vars
    BY <2>1, <2>2 DEF vars
  <2>3. ASSUME NEW t \in Threads, Step(t) PROVE FileRight(frame'[u])
    <3>1. CASE u = t
      BY <2>1, <2>3, <3>1, StepRight
    <3>2. CASE u # t
      <4>1. frame'[u] = frame[u]
        BY <2>3, <3>2, StepIsOK DEF StepOK
      <4> QED BY <2>1, <4>1
    <3> QED BY <3>1, <3>2
  <2>4. CASE \E s \in Connections : Expire(s)
    BY <2>1, <2>4 DEF Expire
  <2> QED BY <2>2, <2>3, <2>4 DEF Next
<1> QED
  BY <1>2, <1>3, Invariance, PTL DEF Spec
=============================================================================
