---------------------------- MODULE ServerProofs ----------------------------
(***************************************************************************)
(* The pool of threads runs the handlers of each connection one after the  *)
(* other, and no accepted client is forgotten, for any numbers of clients  *)
(* and threads, whether handlers finish or not.                            *)
(***************************************************************************)
EXTENDS Server, TLAPS

USE NobodyAssumption

\* The handlers are told apart by their fields.
LEMMA HandlerFields ==
  /\ Accepted.kind = "accept" /\ ~Accepted.error
  /\ AcceptError.kind = "accept" /\ AcceptError.error
  /\ NoHandler.kind = "none"
  /\ \A c : Completed(c).kind = "connection" /\ Completed(c).of = c
BY DEF Accepted, AcceptError, NoHandler, Completed

\* What a handler is follows from its kind.
LEMMA HandlerKinds ==
  ASSUME NEW handler \in Handlers \cup {NoHandler}
  PROVE  /\ handler.kind = "accept" =>
              handler = IF handler.error THEN AcceptError ELSE Accepted
         /\ handler.kind = "connection" =>
              handler.of \in Clients /\ handler = Completed(handler.of)
         /\ handler.kind = "none" => handler = NoHandler
BY HandlerFields DEF Handlers

\* The handlers are handlers.
LEMMA HandlersType ==
  Accepted \in Handlers /\ AcceptError \in Handlers /\ \A c \in Clients : Completed(c) \in Handlers
BY DEF Handlers

\* The initial states satisfy the invariant.
LEMMA InitInv == Init => IndInv
<1> SUFFICES ASSUME Init PROVE IndInv
  OBVIOUS
<1>1. TypeOK
  BY DEF Init, TypeOK, Handlers
<1>2. \A t \in Threads : phase[t] = "run" /\ running[t] = NoHandler
  BY DEF Init
<1>3. Phases /\ OneAccept /\ SocketHeld /\ Holders
  BY <1>2 DEF Init, Phases, OneAccept, SocketHeld, Holders, Served, Uses, Accepting,
    UsesSocket, In
<1>4. OneThreadPerConnection /\ NoClientLost
  BY <1>2 DEF Init, OneThreadPerConnection, NoClientLost, Uses
<1> QED BY <1>1, <1>3, <1>4 DEF IndInv

\* The invariant without the definitions of In and UsesSocket: which handler a
\* thread is in.
LEMMA WhereThreadsAre ==
  ASSUME TypeOK, NEW t \in Threads
  PROVE  /\ \A p : In(t, "accept", p) =>
              /\ phase[t] = p
              /\ running[t] = IF running[t].error THEN AcceptError ELSE Accepted
         /\ In(t, "connection", "body") =>
              running[t].of \in Clients /\ Uses(t, running[t].of)
         /\ UsesSocket(t) <=> phase[t] = "body" /\ running[t] = Accepted
<1>1. running[t] \in Handlers \cup {NoHandler}
  BY DEF TypeOK
<1> QED BY <1>1, HandlerKinds, HandlerFields DEF In, Uses, UsesSocket

\* Every step keeps the invariant.
LEMMA NextInv == IndInv /\ [Next]_vars => IndInv'
<1> SUFFICES ASSUME IndInv, [Next]_vars PROVE IndInv'
  OBVIOUS
<1>i. /\ TypeOK /\ Phases /\ OneAccept /\ SocketHeld /\ Holders
      /\ OneThreadPerConnection /\ NoClientLost
  BY DEF IndInv
<1> USE <1>i
<1>1. ASSUME NEW c \in Clients, ClientConnects(c) PROVE IndInv'
  <2>1. TypeOK'
    BY <1>1 DEF ClientConnects, TypeOK
  <2>2. Phases'
    BY <1>1 DEF ClientConnects, Phases
  <2>3. OneAccept'
    BY <1>1 DEF ClientConnects, OneAccept, Accepting, In
  <2>4. SocketHeld'
    BY <1>1 DEF ClientConnects, SocketHeld, UsesSocket, In
  <2>5. Holders'
    BY <1>1 DEF ClientConnects, Holders, Served, Uses
  <2>6. OneThreadPerConnection'
    BY <1>1 DEF ClientConnects, OneThreadPerConnection, Uses
  <2>7. NoClientLost'
    BY <1>1 DEF ClientConnects, NoClientLost, Uses, UsesSocket, In
  <2> QED BY <2>1, <2>2, <2>3, <2>4, <2>5, <2>6, <2>7 DEF IndInv
<1>2. ASSUME NEW c \in Clients, AcceptCompletes(c) PROVE IndInv'
  <2>1. TypeOK'
    BY <1>2, HandlersType DEF AcceptCompletes, TypeOK
  <2>2. Phases'
    BY <1>2 DEF AcceptCompletes, Phases
  <2>3. OneAccept'
    BY <1>2, HandlerFields DEF AcceptCompletes, OneAccept, Accepting, In
  <2>4. SocketHeld'
    BY <1>2 DEF AcceptCompletes, SocketHeld
  <2>5. Holders'
    BY <1>2, HandlerFields DEF AcceptCompletes, Holders, Served, Uses, TypeOK
  <2>6. OneThreadPerConnection'
    BY <1>2, HandlerFields DEF AcceptCompletes, OneThreadPerConnection, Uses
  <2>7. NoClientLost'
    BY <1>2 DEF AcceptCompletes, NoClientLost, Uses
  <2> QED BY <2>1, <2>2, <2>3, <2>4, <2>5, <2>6, <2>7 DEF IndInv
<1>3. ASSUME NEW c \in Clients, OperationCompletes(c) PROVE IndInv'
  <2>1. TypeOK'
    BY <1>3, HandlersType DEF OperationCompletes, TypeOK
  <2>2. Phases'
    BY <1>3 DEF OperationCompletes, Phases
  <2>3. OneAccept'
    BY <1>3, HandlerFields DEF OperationCompletes, OneAccept, Accepting, In
  <2>4. SocketHeld'
    BY <1>3, HandlerFields DEF OperationCompletes, SocketHeld, UsesSocket, In
  <2>5. Holders'
    BY <1>3, HandlerFields DEF OperationCompletes, Holders, Served, Uses
  <2>6. OneThreadPerConnection'
    BY <1>3, HandlerFields DEF OperationCompletes, OneThreadPerConnection, Uses
  <2>7. NoClientLost'
    BY <1>3 DEF OperationCompletes, NoClientLost, Uses, UsesSocket, In
  <2> QED BY <2>1, <2>2, <2>3, <2>4, <2>5, <2>6, <2>7 DEF IndInv
<1>4. ASSUME AcceptFails PROVE IndInv'
  <2>1. TypeOK'
    BY <1>4, HandlersType DEF AcceptFails, TypeOK
  <2>2. Phases'
    BY <1>4 DEF AcceptFails, Phases
  <2>3. OneAccept'
    BY <1>4, HandlerFields DEF AcceptFails, OneAccept, Accepting, In
  <2>4. SocketHeld'
    BY <1>4, HandlerFields DEF AcceptFails, SocketHeld, UsesSocket, In
  <2>5. Holders'
    BY <1>4, HandlerFields DEF AcceptFails, Holders, Served, Uses
  <2>6. OneThreadPerConnection'
    BY <1>4, HandlerFields DEF AcceptFails, OneThreadPerConnection, Uses
  <2>7. NoClientLost'
    BY <1>4 DEF AcceptFails, NoClientLost, Uses
  <2> QED BY <2>1, <2>2, <2>3, <2>4, <2>5, <2>6, <2>7 DEF IndInv
<1>5. ASSUME NEW t \in Threads, NEW handler \in Handlers, Take(t, handler) PROVE IndInv'
  <2>a. /\ phase[t] = "run" /\ running[t] = NoHandler /\ handler # NoHandler
        /\ handler \in Handlers /\ handler \in ready /\ ready' = ready \ {handler}
        /\ UNCHANGED <<client, accepting, socket_, pending, failed>>
    BY <1>5, HandlerFields DEF Take, Phases, Handlers
  <2>b. \A u \in Threads :
          /\ running'[u] = IF u = t THEN handler ELSE running[u]
          /\ phase'[u] = IF u = t THEN "body" ELSE phase[u]
    BY <1>5 DEF Take, TypeOK
  <2>c. handler \in {Accepted, AcceptError} \/ \E c \in Clients : handler = Completed(c)
    BY <2>a DEF Handlers
  <2>1. TypeOK'
    BY <1>5 DEF Take, TypeOK
  <2>2. Phases'
    BY <2>a, <2>b DEF Phases
  <2>3. OneAccept'
    <3>1. CASE handler \in {Accepted, AcceptError}
      BY <2>a, <2>b, <3>1, HandlerFields DEF OneAccept, Accepting, In
    <3>2. CASE \E c \in Clients : handler = Completed(c)
      BY <2>a, <2>b, <3>2, HandlerFields DEF OneAccept, Accepting, In
    <3> QED BY <3>1, <3>2, <2>c
  <2>4. SocketHeld'
    <3>1. CASE handler = Accepted
      BY <2>a, <2>b, <3>1, HandlerFields DEF SocketHeld, UsesSocket, In
    <3>2. CASE handler # Accepted
      <4>1. ~(handler.kind = "accept" /\ ~handler.error)
        BY <2>a, <3>2, HandlerKinds
      <4> QED BY <2>a, <2>b, <3>2, <4>1 DEF SocketHeld, UsesSocket, In
    <3> QED BY <3>1, <3>2
  <2>5. Holders'
    BY <1>5 DEF Take, Holders, Served, Uses, TypeOK
  <2>6. OneThreadPerConnection'
    BY <1>5 DEF Take, OneThreadPerConnection, Uses, TypeOK
  <2>7. NoClientLost'
    BY <1>5, HandlerFields DEF Take, NoClientLost, Uses, UsesSocket, In, TypeOK
  <2> QED BY <2>1, <2>2, <2>3, <2>4, <2>5, <2>6, <2>7 DEF IndInv
<1>6. ASSUME NEW t \in Threads, HandleAccept(t) PROVE IndInv'
  <2>a. /\ phase[t] = "body" /\ running[t] = Accepted
        /\ UsesSocket(t) /\ Accepting(t)
    BY <1>6, WhereThreadsAre DEF HandleAccept, Accepting
  <2>b. socket_ \in Clients /\ Accepted \notin ready
    BY <2>a DEF SocketHeld, OneAccept, TypeOK
  <2>c. /\ pending' = pending \cup {socket_} /\ socket_' = Nobody
        /\ UNCHANGED <<client, accepting, ready, running, failed>>
    BY <1>6 DEF HandleAccept
  <2>d. \A u \in Threads : phase'[u] = IF u = t THEN "rearm" ELSE phase[u]
    BY <1>6 DEF HandleAccept, TypeOK
  <2>e. \A u \in Threads : UsesSocket(u) => u = t
    BY <2>a DEF OneAccept, Accepting, UsesSocket
  <2>1. TypeOK'
    BY <1>6, <2>b DEF HandleAccept, TypeOK
  <2>2. Phases'
    BY <1>6, WhereThreadsAre DEF HandleAccept, Phases
  <2>3. OneAccept'
    BY <1>6 DEF HandleAccept, OneAccept, Accepting, In
  <2>4. SocketHeld'
    BY <2>b, <2>c, <2>d, <2>e DEF SocketHeld, UsesSocket, In
  <2>5. Holders'
    BY <1>6 DEF HandleAccept, Holders, Served, Uses
  <2>6. OneThreadPerConnection'
    <3>1. ~Served(socket_)
      BY <2>b DEF Holders
    <3>2. \A c, u : u \in Threads /\ Uses(u, c)' => Uses(u, c)
      BY <2>c, <2>d DEF Uses
    <3> QED BY <2>c, <3>1, <3>2 DEF OneThreadPerConnection, Served
  <2>7. NoClientLost'
    BY <1>6, HandlerFields DEF HandleAccept, NoClientLost, Uses, In
  <2> QED BY <2>1, <2>2, <2>3, <2>4, <2>5, <2>6, <2>7 DEF IndInv
<1>7. ASSUME NEW t \in Threads, Rearm(t) PROVE IndInv'
  <2>a. phase[t] = "rearm" /\ running[t] = Accepted /\ Accepting(t)
    BY <1>7 DEF Rearm, In, Phases, Accepting
  <2>b. \A u \in Threads : ~UsesSocket(u)
    BY <2>a DEF OneAccept, Accepting, UsesSocket, In
  <2>c. socket_ = Nobody
    BY <2>a, <2>b DEF SocketHeld, OneAccept
  <2>d. /\ UNCHANGED <<client, socket_, pending, ready, running, failed>>
        /\ \A u \in Threads : phase'[u] = IF u = t THEN "tail" ELSE phase[u]
    BY <1>7 DEF Rearm, TypeOK
  <2>1. TypeOK'
    BY <1>7 DEF Rearm, TypeOK
  <2>2. Phases'
    BY <1>7, WhereThreadsAre DEF Rearm, Phases
  <2>3. OneAccept'
    BY <1>7 DEF Rearm, OneAccept, Accepting, In, TypeOK
  <2>4. SocketHeld'
    BY <1>7 DEF Rearm, SocketHeld, UsesSocket, In
  <2>5. Holders'
    BY <1>7 DEF Rearm, Holders, Served, Uses
  <2>6. OneThreadPerConnection'
    BY <1>7 DEF Rearm, OneThreadPerConnection, Uses
  <2>7. NoClientLost'
    <3>1. \A c \in Clients, u \in Threads : Uses(u, c) => Uses(u, c)'
      BY <2>a, <2>d, HandlerFields DEF Uses
    <3> QED BY <2>b, <2>c, <2>d, <3>1 DEF NoClientLost
  <2> QED BY <2>1, <2>2, <2>3, <2>4, <2>5, <2>6, <2>7 DEF IndInv
<1>8. ASSUME NEW t \in Threads, HandleAcceptError(t) PROVE IndInv'
  <2>1. TypeOK'
    BY <1>8 DEF HandleAcceptError, TypeOK
  <2>2. Phases'
    BY <1>8, WhereThreadsAre DEF HandleAcceptError, Phases
  <2>3. OneAccept'
    BY <1>8 DEF HandleAcceptError, OneAccept, Accepting, In
  <2>4. SocketHeld'
    BY <1>8 DEF HandleAcceptError, SocketHeld, UsesSocket, In
  <2>5. Holders'
    BY <1>8 DEF HandleAcceptError, Holders, Served, Uses
  <2>6. OneThreadPerConnection'
    BY <1>8 DEF HandleAcceptError, OneThreadPerConnection, Uses
  <2>7. NoClientLost'
    BY <1>8, HandlerFields DEF HandleAcceptError, NoClientLost, Uses, UsesSocket, In
  <2> QED BY <2>1, <2>2, <2>3, <2>4, <2>5, <2>6, <2>7 DEF IndInv
<1>9. ASSUME NEW t \in Threads, StartNext(t) PROVE IndInv'
  <2>1. TypeOK'
    BY <1>9, WhereThreadsAre DEF StartNext, TypeOK
  <2>2. Phases'
    BY <1>9, WhereThreadsAre DEF StartNext, Phases, Uses
  <2>3. OneAccept'
    BY <1>9 DEF StartNext, OneAccept, Accepting, In
  <2>4. SocketHeld'
    BY <1>9 DEF StartNext, SocketHeld, UsesSocket, In
  <2>5. Holders'
    BY <1>9, WhereThreadsAre DEF StartNext, Holders, Served, Uses
  <2>6. OneThreadPerConnection'
    BY <1>9, WhereThreadsAre DEF StartNext, OneThreadPerConnection, Uses, TypeOK
  <2>7. NoClientLost'
    BY <1>9, HandlerFields DEF StartNext, NoClientLost, Uses, UsesSocket, In
  <2> QED BY <2>1, <2>2, <2>3, <2>4, <2>5, <2>6, <2>7 DEF IndInv
<1>10. ASSUME NEW t \in Threads, Close(t) PROVE IndInv'
  <2>a. running[t].of \in Clients /\ Uses(t, running[t].of)
    BY <1>10, WhereThreadsAre DEF Close
  <2>b. /\ client' = [client EXCEPT ![running[t].of] = "away"]
        /\ UNCHANGED <<accepting, socket_, pending, ready, running, failed>>
        /\ \A u \in Threads : phase'[u] = IF u = t THEN "tail" ELSE phase[u]
    BY <1>10 DEF Close, TypeOK
  <2>1. TypeOK'
    BY <1>10 DEF Close, TypeOK
  <2>2. Phases'
    BY <1>10, WhereThreadsAre DEF Close, Phases, Uses
  <2>3. OneAccept'
    BY <1>10 DEF Close, OneAccept, Accepting, In
  <2>4. SocketHeld'
    BY <1>10 DEF Close, SocketHeld, UsesSocket, In
  <2>5. Holders'
    <3>1. \A c, u : u \in Threads /\ Uses(u, c)' => Uses(u, c) /\ u # t
      BY <2>b DEF Uses
    <3>2. ~Served(running[t].of)'
      BY <2>a, <2>b, <3>1 DEF OneThreadPerConnection, Served
    <3>3. socket_ # running[t].of
      BY <2>a DEF Holders, Served
    <3>4. \A c \in Clients : Served(c)' => Served(c) /\ c # running[t].of
      BY <2>b, <3>1, <3>2 DEF Served
    <3>5. \A c \in Clients \ {running[t].of} : client'[c] = client[c]
      BY <2>b DEF TypeOK
    <3>6. ~Served(socket_) => ~Served(socket_)'
      BY <2>b, <3>1 DEF Served
    <3> QED BY <2>b, <3>3, <3>4, <3>5, <3>6 DEF Holders, TypeOK
  <2>6. OneThreadPerConnection'
    BY <1>10 DEF Close, OneThreadPerConnection, Uses
  <2>7. NoClientLost'
    BY <1>10, HandlerFields DEF Close, NoClientLost, Uses, UsesSocket, In, TypeOK
  <2> QED BY <2>1, <2>2, <2>3, <2>4, <2>5, <2>6, <2>7 DEF IndInv
<1>11. ASSUME NEW t \in Threads, Return(t) PROVE IndInv'
  <2>1. TypeOK'
    BY <1>11 DEF Return, TypeOK
  <2>2. Phases'
    BY <1>11 DEF Return, Phases, TypeOK
  <2>3. OneAccept'
    BY <1>11 DEF Return, OneAccept, Accepting, In
  <2>4. SocketHeld'
    BY <1>11 DEF Return, SocketHeld, UsesSocket, In
  <2>5. Holders'
    BY <1>11 DEF Return, Holders, Served, Uses
  <2>6. OneThreadPerConnection'
    BY <1>11 DEF Return, OneThreadPerConnection, Uses
  <2>7. NoClientLost'
    BY <1>11 DEF Return, NoClientLost, Uses, UsesSocket, In
  <2> QED BY <2>1, <2>2, <2>3, <2>4, <2>5, <2>6, <2>7 DEF IndInv
<1>12. ASSUME NEW t \in Threads, RunReturns(t) PROVE IndInv'
  <2>1. TypeOK'
    BY <1>12 DEF RunReturns, TypeOK
  <2>2. Phases'
    BY <1>12 DEF RunReturns, Phases
  <2>3. OneAccept'
    BY <1>12 DEF RunReturns, OneAccept, Accepting, In
  <2>4. SocketHeld'
    BY <1>12 DEF RunReturns, SocketHeld, UsesSocket, In
  <2>5. Holders'
    BY <1>12 DEF RunReturns, Holders, Served, Uses
  <2>6. OneThreadPerConnection'
    BY <1>12 DEF RunReturns, OneThreadPerConnection, Uses
  <2>7. NoClientLost'
    BY <1>12 DEF RunReturns, NoClientLost, Uses, UsesSocket, In
  <2> QED BY <2>1, <2>2, <2>3, <2>4, <2>5, <2>6, <2>7 DEF IndInv
<1>13. CASE UNCHANGED vars
  BY <1>13 DEF vars, IndInv, TypeOK, Phases, OneAccept, SocketHeld, Holders, Served,
    Uses, Accepting, UsesSocket, In, OneThreadPerConnection, NoClientLost
<1> QED
  BY <1>1, <1>2, <1>3, <1>4, <1>5, <1>6, <1>7, <1>8, <1>9, <1>10, <1>11, <1>12, <1>13
  DEF Next, HandleStep

\* In every execution.
THEOREM Invariance == Spec => []IndInv
<1>1. Init => IndInv
  BY InitInv
<1>2. IndInv /\ [Next]_vars => IndInv'
  BY NextInv
<1> QED BY <1>1, <1>2, PTL DEF Spec

\* The state variables of the server hold what they are declared to.
THEOREM TypeCorrect == Spec => []TypeOK
<1>1. IndInv => TypeOK
  BY DEF IndInv
<1> QED BY <1>1, Invariance, PTL

\* Although nothing in server.cc or connection.cc locks or uses a strand, no two
\* threads of thread_pool are in the handlers of one Connection.
THEOREM ThreadsApart == Spec => []OneThreadPerConnection
<1>1. IndInv => OneThreadPerConnection
  BY DEF IndInv
<1> QED BY <1>1, Invariance, PTL

\* Every accepted client has a Connection at work for it or is about to get
\* one: do_accept never hands socket_ out before handle_accept moved from it.
THEOREM ClientsKept == Spec => []NoClientLost
<1>1. IndInv => NoClientLost
  BY DEF IndInv
<1> QED BY <1>1, Invariance, PTL
=============================================================================
