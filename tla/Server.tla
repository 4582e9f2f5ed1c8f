------------------------------- MODULE Server -------------------------------
(***************************************************************************)
(* The Server object (server.h/.cc): the accept loop, and the threads that *)
(* call io_service::run and so execute the completion handlers of the      *)
(* acceptor and of all connections.                                        *)
(*                                                                         *)
(* A completion handler of a connection is one step of module Connection.  *)
(* That module runs the handlers of one connection one after the other;    *)
(* this one lets the pool run them on any thread, as soon as their         *)
(* operation completes, and shows that this makes no difference.  So what  *)
(* matters of a handler here is when it still touches the connection's     *)
(* members and when it starts the next operation.                          *)
(***************************************************************************)
EXTENDS Naturals, FiniteSets

CONSTANTS
  Threads,      \* thread_pool of run()
  Clients,      \* each has at most one connection at a time
  Stuck,        \* those whose requests a handler never finishes with
  AcceptErrors  \* whether async_accept may complete with an error

ASSUME StuckAssumption == Stuck \subseteq Clients
ASSUME AcceptErrorsAssumption == AcceptErrors \in BOOLEAN

Nobody == "nobody"
ASSUME NobodyAssumption == Nobody \notin Clients

\* Completion handlers: handle_accept, and those of the connection of a client.
Accepted == [kind |-> "accept", error |-> FALSE, of |-> Nobody]
AcceptError == [Accepted EXCEPT !.error = TRUE]
Completed(c) == [kind |-> "connection", error |-> FALSE, of |-> c]

Handlers == {Accepted, AcceptError} \cup {Completed(c) : c \in Clients}

NoHandler == [Accepted EXCEPT !.kind = "none"]

VARIABLES
  client,    \* "away", in the listen "backlog", or accepted: "here"
  accepting, \* async_accept is pending
  socket_,   \* whose connection the member socket_ holds
  pending,   \* the clients whose connection has a pending operation
  ready,     \* the handlers whose operation has completed
  running,   \* per thread, the handler it executes
  phase,     \* per thread, how far: "run" (in none), "body", "rearm", "tail",
             \* or "returned" from io_service::run
  failed     \* history: an accept has failed

vars == <<client, accepting, socket_, pending, ready, running, phase, failed>>

Init ==
  /\ client = [c \in Clients |-> "away"]
  /\ accepting = TRUE                          \* init() calls do_accept()
  /\ socket_ = Nobody
  /\ pending = {} /\ ready = {}
  /\ running = [t \in Threads |-> NoHandler]
  /\ phase = [t \in Threads |-> "run"]
  /\ failed = FALSE

-----------------------------------------------------------------------------
(***************************************************************************)
(* The clients and the kernel.                                             *)
(***************************************************************************)
ClientConnects(c) ==
  /\ client[c] = "away"
  /\ client' = [client EXCEPT ![c] = "backlog"]
  /\ UNCHANGED <<accepting, socket_, pending, ready, running, phase, failed>>

AcceptCompletes(c) ==
  /\ accepting /\ client[c] = "backlog"
  /\ accepting' = FALSE
  /\ socket_' = c
  /\ client' = [client EXCEPT ![c] = "here"]
  /\ ready' = ready \cup {Accepted}
  /\ UNCHANGED <<pending, running, phase, failed>>

\* No descriptor is left, for one.
AcceptFails ==
  /\ AcceptErrors /\ accepting
  /\ accepting' = FALSE
  /\ ready' = ready \cup {AcceptError}
  /\ failed' = TRUE
  /\ UNCHANGED <<client, socket_, pending, running, phase>>

\* Data has come or was taken, or the client has left.
OperationCompletes(c) ==
  /\ c \in pending
  /\ pending' = pending \ {c}
  /\ ready' = ready \cup {Completed(c)}
  /\ UNCHANGED <<client, accepting, socket_, running, phase, failed>>

-----------------------------------------------------------------------------
(***************************************************************************)
(* The threads.                                                            *)
(***************************************************************************)
Take(t, handler) ==
  /\ phase[t] = "run" /\ handler \in ready
  /\ ready' = ready \ {handler}
  /\ running' = [running EXCEPT ![t] = handler]
  /\ phase' = [phase EXCEPT ![t] = "body"]
  /\ UNCHANGED <<client, accepting, socket_, pending, failed>>

\* Thread t is in a handler of that kind.
In(t, kind, p) == running[t].kind = kind /\ phase[t] = p

\* Mutant: do_accept is called first.
HandleAccept_RearmsFirst(t) ==
  /\ In(t, "accept", "body") /\ ~running[t].error
  /\ accepting' = TRUE
  /\ pending' = pending \cup ({socket_} \ {Nobody})
  /\ phase' = [phase EXCEPT ![t] = "rearm"]
  /\ UNCHANGED <<client, socket_, ready, running, failed>>

\* Mutant: the error is not looked at.
HandleAccept_AnyError(t) ==
  /\ In(t, "accept", "body")
  /\ pending' = pending \cup {socket_}
  /\ socket_' = Nobody
  /\ phase' = [phase EXCEPT ![t] = "rearm"]
  /\ UNCHANGED <<client, accepting, ready, running, failed>>

\* A Connection is made of socket_ and started: do_read_partial.
HandleAccept(t) ==
  /\ In(t, "accept", "body") /\ ~running[t].error
  /\ pending' = pending \cup {socket_}
  /\ socket_' = Nobody
  /\ phase' = [phase EXCEPT ![t] = "rearm"]
  /\ UNCHANGED <<client, accepting, ready, running, failed>>

\* Mutant: do_accept is not called again.
Rearm_Once(t) ==
  /\ In(t, "accept", "rearm")
  /\ phase' = [phase EXCEPT ![t] = "tail"]
  /\ UNCHANGED <<client, accepting, socket_, pending, ready, running, failed>>

\* do_accept.
Rearm(t) ==
  /\ In(t, "accept", "rearm")
  /\ accepting' = TRUE
  /\ phase' = [phase EXCEPT ![t] = "tail"]
  /\ UNCHANGED <<client, socket_, pending, ready, running, failed>>

\* With an error handle_accept returns; do_accept is not called again.
HandleAcceptError(t) ==
  /\ In(t, "accept", "body") /\ running[t].error
  /\ phase' = [phase EXCEPT ![t] = "tail"]
  /\ UNCHANGED <<client, accepting, socket_, pending, ready, running, failed>>

\* Mutant: do_read_partial clears the response after it has started to read.
StartNext_ClearsLast(t) ==
  /\ In(t, "connection", "body")
  /\ pending' = pending \cup {running[t].of}
  /\ UNCHANGED <<client, accepting, socket_, ready, running, phase, failed>>

\* A handler of a connection has done its work and starts the next operation,
\* with the last use it makes of the connection; it need not have noticed that
\* the client has left.
StartNext(t) ==
  /\ In(t, "connection", "body")
  /\ pending' = pending \cup {running[t].of}
  /\ phase' = [phase EXCEPT ![t] = "tail"]
  /\ UNCHANGED <<client, accepting, socket_, ready, running, failed>>

\* Or it closes the socket.  The client may connect again.
Close(t) ==
  /\ In(t, "connection", "body")
  /\ client' = [client EXCEPT ![running[t].of] = "away"]
  /\ phase' = [phase EXCEPT ![t] = "tail"]
  /\ UNCHANGED <<accepting, socket_, pending, ready, running, failed>>

Return(t) ==
  /\ phase[t] = "tail"
  /\ running' = [running EXCEPT ![t] = NoHandler]
  /\ phase' = [phase EXCEPT ![t] = "run"]
  /\ UNCHANGED <<client, accepting, socket_, pending, ready, failed>>

\* io_service::run returns when there is no work left: nothing pending, nothing
\* ready, no handler running.  When all threads have, run() and main return.
RunReturns(t) ==
  /\ phase[t] = "run"
  /\ ~accepting /\ pending = {} /\ ready = {}
  /\ \A u \in Threads : phase[u] \in {"run", "returned"}
  /\ phase' = [phase EXCEPT ![t] = "returned"]
  /\ UNCHANGED <<client, accepting, socket_, pending, ready, running, failed>>

-----------------------------------------------------------------------------
HandleStep(t) ==
  \/ HandleAccept(t) \/ Rearm(t) \/ HandleAcceptError(t)
  \/ StartNext(t) \/ Close(t) \/ Return(t)

Next ==
  \/ \E c \in Clients :
       ClientConnects(c) \/ AcceptCompletes(c) \/ OperationCompletes(c)
  \/ AcceptFails
  \/ \E t \in Threads :
       \/ \E handler \in Handlers : Take(t, handler)
       \/ HandleStep(t)
       \/ RunReturns(t)

Spec == Init /\ [][Next]_vars

\* Handlers return, but for those of stuck clients (a ProxyHandler waits for
\* its origin without a timeout).  The listen queue and asio's queue of ready
\* handlers are first come, first served: what stays in them is taken when a
\* thread comes back for it again and again.
Fairness ==
  /\ \A t \in Threads :
       WF_vars(~(phase[t] = "body" /\ running[t].of \in Stuck) /\ HandleStep(t))
  /\ \A handler \in Handlers : SF_vars(\E t \in Threads : Take(t, handler))
  /\ \A c \in Clients : SF_vars(AcceptCompletes(c))

FairSpec == Spec /\ Fairness

-----------------------------------------------------------------------------
(***************************************************************************)
(* Properties.                                                             *)
(***************************************************************************)
\* The type invariant.
TypeOK ==
  /\ client \in [Clients -> {"away", "backlog", "here"}]
  /\ accepting \in BOOLEAN
  /\ socket_ \in Clients \cup {Nobody}
  /\ pending \subseteq Clients
  /\ ready \subseteq Handlers
  /\ running \in [Threads -> Handlers \cup {NoHandler}]
  /\ phase \in [Threads -> {"run", "body", "rearm", "tail", "returned"}]
  /\ failed \in BOOLEAN

\* Thread t is in the part of a handler that uses c's Connection object.
Uses(t, c) == phase[t] = "body" /\ running[t] = Completed(c)

\* No two threads use the same Connection at a time, and none uses one that has
\* an operation under way or completed: without a strand, the handlers of a
\* connection follow each other because each starts the next operation last.
OneThreadPerConnection ==
  \A c \in Clients :
    /\ ~(c \in pending /\ Completed(c) \in ready)
    /\ \A t \in Threads : Uses(t, c) =>
         /\ c \notin pending /\ Completed(c) \notin ready
         /\ \A u \in Threads \ {t} : ~Uses(u, c)

\* Thread t will look at socket_.
UsesSocket(t) == In(t, "accept", "body") /\ ~running[t].error

\* Every client that was accepted has a Connection at work for it, or is in
\* socket_ and about to get one: socket_ is not given to the next async_accept
\* before it was moved from.
NoClientLost ==
  /\ \A c \in Clients : client[c] = "here" =>
       \/ c \in pending \/ Completed(c) \in ready
       \/ \E t \in Threads : Uses(t, c)
       \/ socket_ = c /\ (Accepted \in ready \/ \E t \in Threads : UsesSocket(t))
  /\ accepting => socket_ = Nobody

\* A client that connects is accepted, with fewer stuck clients than threads,
\* until an accept fails.
ClientsAccepted ==
  \A c \in Clients : client[c] = "backlog" ~> client[c] # "backlog" \/ failed

\* The server accepts connections: also after an accept has failed.
KeepsAccepting == \A c \in Clients : client[c] = "backlog" ~> client[c] # "backlog"

-----------------------------------------------------------------------------
(***************************************************************************)
(* The inductive invariant of the proofs (module ServerProofs).            *)
(***************************************************************************)
\* Thread t has not called do_accept yet, or will not.
Accepting(t) == In(t, "accept", "body") \/ In(t, "accept", "rearm")

\* What a thread runs fits how far it is.
Phases ==
  \A t \in Threads :
    /\ phase[t] \in {"run", "returned"} <=> running[t] = NoHandler
    /\ phase[t] = "rearm" => running[t] = Accepted

\* There is one accept at most: pending, completed or being handled.
OneAccept ==
  /\ accepting => Accepted \notin ready /\ AcceptError \notin ready
  /\ ~(Accepted \in ready /\ AcceptError \in ready)
  /\ \A t \in Threads : Accepting(t) =>
       /\ ~accepting /\ Accepted \notin ready /\ AcceptError \notin ready
       /\ \A u \in Threads : Accepting(u) => u = t

\* socket_ holds a connection exactly between its accept and handle_accept.
SocketHeld ==
  socket_ # Nobody <=> Accepted \in ready \/ \E t \in Threads : UsesSocket(t)

\* A Connection is at work for c.
Served(c) == c \in pending \/ Completed(c) \in ready \/ \E t \in Threads : Uses(t, c)

\* Only accepted clients have a socket or a Connection, and not both.
Holders ==
  /\ socket_ # Nobody => client[socket_] = "here" /\ ~Served(socket_)
  /\ \A c \in Clients : Served(c) => client[c] = "here"

IndInv ==
  /\ TypeOK
  /\ Phases /\ OneAccept /\ SocketHeld /\ Holders
  /\ OneThreadPerConnection /\ NoClientLost
=============================================================================
