--------------------------- MODULE ProcessRequest ---------------------------
(***************************************************************************)
(* Connection::ProcessRequest (connection.cc): which handler gets a        *)
(* request.  The loop cuts the URI at its last "/" until what is left is a *)
(* key of the handlers map, or nothing is left.                            *)
(*                                                                         *)
(* A URI always begins with "/" (Request::Parse), so it is the sequence of *)
(* the texts between its slashes: "/a/b" is <<"a", "b">>, "/a/" is         *)
(* <<"a", "">>, "/" is <<"">>, and the empty string is <<>>.  The key      *)
(* "ErrorHandler" has no slash and is no URI; it is left out.              *)
(***************************************************************************)
EXTENDS Integers, Sequences

CONSTANTS
  Segment,   \* the texts between two slashes, the empty one among them
  Paths,     \* the URIs clients ask for
  Keys       \* the URI prefixes a configuration may name

Root == <<"">>                    \* the URI "/"

ASSUME SegmentAssumption == "" \in Segment
ASSUME PathsAssumption == Paths \subseteq Seq(Segment) \ {<<>>}
ASSUME KeysAssumption == Keys \subseteq Seq(Segment) \ {<<>>}

\* What the fallback looks at: a Referer header that is not empty, and whether
\* it contains the Host header (as every text contains an empty one).
Request == [uri: Paths, referer: BOOLEAN, refers_host: BOOLEAN]

None == <<>>                      \* no handler was called

VARIABLES
  handlers,         \* the keys of the handlers map
  request,
  longest_prefix,
  pc,               \* "idle", "loop", "referer", "dispatch", "done"
  called            \* the key whose handler was called, or None

vars == <<handlers, request, longest_prefix, pc, called>>

Init ==
  /\ handlers \in SUBSET Keys
  /\ request \in Request
  /\ longest_prefix = <<>>
  /\ pc = "idle"
  /\ called = None

\* A connection calls ProcessRequest with its next request.
Call ==
  /\ pc \in {"idle", "done"}
  /\ request' \in Request
  /\ longest_prefix' = request'.uri
  /\ pc' = "loop"
  /\ called' = None
  /\ UNCHANGED handlers

\* Mutant: substr takes one character too many and keeps the last "/".
Parent_KeepsSlash(path) ==
  IF Len(path) = 1 THEN Root ELSE SubSeq(path, 1, Len(path) - 1)

\* Mutant: two segments are cut off.
Parent_TwoLess(path) == SubSeq(path, 1, Len(path) - 2)

\* substr(0, find_last_of("/")).
Parent(path) == SubSeq(path, 1, Len(path) - 1)

\* One round of the loop that finds no handler.
Shorten ==
  /\ pc = "loop"
  /\ longest_prefix # <<>>
  /\ longest_prefix \notin handlers
  /\ longest_prefix' = Parent(longest_prefix)
  /\ UNCHANGED <<handlers, request, pc, called>>

\* Mutant: the loop's result is used without looking whether it is empty.
LeaveLoop_Unchecked ==
  /\ pc = "loop"
  /\ longest_prefix = <<>> \/ longest_prefix \in handlers
  /\ pc' = "dispatch"
  /\ UNCHANGED <<handlers, request, longest_prefix, called>>

LeaveLoop ==
  /\ pc = "loop"
  /\ longest_prefix = <<>> \/ longest_prefix \in handlers
  /\ pc' = IF longest_prefix = <<>> THEN "referer" ELSE "dispatch"
  /\ UNCHANGED <<handlers, request, longest_prefix, called>>

\* Mutant: whether there is a handler for "/" is not asked.
FollowsProxy_NoFind == request.referer /\ request.refers_host

FollowsProxy ==
  request.referer /\ request.refers_host /\ Root \in handlers

\* The fallback to "/" for a resource of a proxied page.
TryReferer ==
  /\ pc = "referer"
  /\ IF FollowsProxy
       THEN longest_prefix' = Root /\ pc' = "dispatch"
       ELSE UNCHANGED longest_prefix /\ pc' = "done"
  /\ UNCHANGED <<handlers, request, called>>

\* handlers[longest_prefix]->HandleRequest.  operator[] inserts a null handler
\* under a key that is not there.
Dispatch ==
  /\ pc = "dispatch"
  /\ handlers' = handlers \cup {longest_prefix}
  /\ called' = longest_prefix
  /\ pc' = "done"
  /\ UNCHANGED <<request, longest_prefix>>

Next == Call \/ Shorten \/ LeaveLoop \/ TryReferer \/ Dispatch

Spec == Init /\ [][Next]_vars

\* A call runs to its end on the thread that made it.
FairSpec == Spec /\ WF_vars(Shorten \/ LeaveLoop \/ TryReferer \/ Dispatch)

-----------------------------------------------------------------------------
(***************************************************************************)
(* Properties.                                                             *)
(***************************************************************************)
\* The type invariant.
TypeOK ==
  /\ handlers \subseteq Keys
  /\ request \in Request
  /\ longest_prefix \in Seq(Segment)
  /\ pc \in {"idle", "loop", "referer", "dispatch", "done"}
  /\ called \in Seq(Segment)

\* The first k segments of the URI are a configured prefix.
Handled(k) == SubSeq(request.uri, 1, k) \in handlers

\* The reference: the longest configured prefix of the URI that ends at a
\* slash or at the end of the URI; failing that "/", if the request follows a
\* proxied page; failing that no handler, and the 400 error page.
RoutesToLongest ==
  pc = "done" =>
    IF \E k \in 1..Len(request.uri) : Handled(k)
      THEN \E k \in 1..Len(request.uri) :
             /\ Handled(k) /\ called = SubSeq(request.uri, 1, k)
             /\ \A j \in (k + 1)..Len(request.uri) : ~Handled(j)
      ELSE called = IF FollowsProxy THEN Root ELSE None

\* The handlers map is shared by the threads of the pool without a lock:
\* operator[] in ProcessRequest never has to insert (and never calls through
\* the null pointer it would insert).
HandlersNeverGrow == [][handlers' = handlers]_vars

\* Every call returns: the loop ends for every URI.
CallsReturn == pc = "loop" ~> pc = "done"

-----------------------------------------------------------------------------
(***************************************************************************)
(* The inductive invariant of the proofs (module ProcessRequestProofs).    *)
(***************************************************************************)
\* longest_prefix is a prefix of the URI, and no longer one is a key.
Searching ==
  pc \in {"loop", "referer"} =>
    /\ Len(longest_prefix) <= Len(request.uri)
    /\ longest_prefix = SubSeq(request.uri, 1, Len(longest_prefix))
    /\ \A j \in (Len(longest_prefix) + 1)..Len(request.uri) : ~Handled(j)
    /\ pc = "referer" => longest_prefix = <<>>

\* What is about to be called is what the reference says.
Found ==
  pc = "dispatch" =>
    /\ longest_prefix \in handlers
    /\ \/ \E k \in 1..Len(request.uri) :
            /\ Handled(k) /\ longest_prefix = SubSeq(request.uri, 1, k)
            /\ \A j \in (k + 1)..Len(request.uri) : ~Handled(j)
       \/ /\ \A k \in 1..Len(request.uri) : ~Handled(k)
          /\ FollowsProxy /\ longest_prefix = Root

NotCalled == pc \in {"loop", "referer", "dispatch"} => called = None

IndInv == TypeOK /\ Searching /\ Found /\ NotCalled /\ RoutesToLongest
=============================================================================
