------------------------------ MODULE Exchange ------------------------------
(***************************************************************************)
(* What a connection promises, without streams, buffers and handlers: the  *)
(* requests of one client are answered in the order they were asked, none  *)
(* twice, nothing after one that asked for a close; and the connection     *)
(* ends only for a reason.  Module Connection implements this.             *)
(***************************************************************************)
EXTENDS Naturals, Sequences

CONSTANTS
  Requests,   \* what a client may ask
  Closing,    \* the requests that ask for the connection to be closed
  Fatal       \* the requests whose length is not a number

VARIABLES
  asked,      \* the requests, under numbers that grow
  answers,    \* the numbers of the requests answered; 0 for a refusal
  open,       \* the server has not closed the connection
  present     \* the client has not closed it

vars == <<asked, answers, open, present>>

\* Request n is later than all that have been answered.
Later(n) == \A i \in 1..Len(answers) : answers[i] < n

\* The last answer was to a request that asked for a close.
LastCloses ==
  \E n \in DOMAIN asked :
    /\ answers # <<>> /\ answers[Len(answers)] = n
    /\ asked[n] \in Closing

Init ==
  /\ asked \in [{} -> Requests]
  /\ answers = <<>>
  /\ open = TRUE /\ present = TRUE

\* The client asks, until it has asked for a close.
Ask ==
  /\ present
  /\ \A m \in DOMAIN asked : asked[m] \notin Closing
  /\ \E n \in DOMAIN asked' :
       /\ \A m \in DOMAIN asked : m < n
       /\ DOMAIN asked' = DOMAIN asked \cup {n}
       /\ asked'[n] \in Requests
  /\ \A m \in DOMAIN asked : asked'[m] = asked[m]
  /\ UNCHANGED <<answers, open, present>>

\* A request is answered; those skipped were part of something refused, or
\* of the body of an earlier one.
Answer ==
  /\ open /\ ~LastCloses
  /\ \E n \in DOMAIN asked : Later(n) /\ answers' = Append(answers, n)
  /\ UNCHANGED <<asked, open, present>>

\* What the server read is no request.
Refuse ==
  /\ open /\ ~LastCloses
  /\ DOMAIN asked # {}
  /\ answers' = Append(answers, 0)
  /\ UNCHANGED <<asked, open, present>>

Leave == present /\ present' = FALSE /\ UNCHANGED <<asked, answers, open>>

\* The server closes the connection when it has answered a request for that or
\* the client has left, or comes to its end over a request it cannot read.
End ==
  /\ open
  /\ \/ LastCloses
     \/ ~present
     \/ \E n \in DOMAIN asked : Later(n) /\ asked[n] \in Fatal
  /\ open' = FALSE
  /\ UNCHANGED <<asked, answers, present>>

Next == Ask \/ Answer \/ Refuse \/ Leave \/ End

Spec == Init /\ [][Next]_vars
=============================================================================
