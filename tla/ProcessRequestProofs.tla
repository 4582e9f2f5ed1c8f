------------------------ MODULE ProcessRequestProofs ------------------------
(***************************************************************************)
(* ProcessRequest picks the handler the reference names, for every set of  *)
(* handlers and every URI.                                                 *)
(***************************************************************************)
EXTENDS ProcessRequest, SequenceTheorems, TLAPS

\* Cutting off the last segment of a prefix of the URI leaves the prefix that
\* is one segment shorter.
LEMMA ParentOfPrefix ==
  ASSUME NEW uri \in Seq(Segment), NEW n \in 1..Len(uri)
  PROVE  /\ Parent(SubSeq(uri, 1, n)) = SubSeq(uri, 1, n - 1)
         /\ SubSeq(uri, 1, n - 1) \in Seq(Segment)
         /\ Len(SubSeq(uri, 1, n - 1)) = n - 1
BY DEF Parent

\* The whole URI is its own prefix, of positive length.
LEMMA UriFacts ==
  ASSUME NEW r \in Request
  PROVE  /\ r.uri \in Seq(Segment) /\ Len(r.uri) \in Nat \ {0}
         /\ r.uri = SubSeq(r.uri, 1, Len(r.uri))
<1>1. r.uri \in Seq(Segment) /\ r.uri # <<>>
  BY PathsAssumption DEF Request
<1> QED BY <1>1

\* Nothing has been called yet.
LEMMA InitInv == Init => IndInv
BY DEF Init, IndInv, TypeOK, Searching, Found, NotCalled, RoutesToLongest, None

\* The invariant is inductive.
LEMMA NextInv == IndInv /\ [Next]_vars => IndInv'
<1> SUFFICES ASSUME IndInv, [Next]_vars PROVE IndInv'
  OBVIOUS
<1>0. /\ request.uri \in Seq(Segment) /\ Len(request.uri) \in Nat \ {0}
      /\ longest_prefix \in Seq(Segment)
  BY UriFacts DEF IndInv, TypeOK
<1>1. CASE UNCHANGED vars
  BY <1>1 DEF vars, IndInv, TypeOK, Searching, Found, NotCalled,
              RoutesToLongest, Handled, FollowsProxy
<1>2. CASE Call
  <2>1. /\ request' \in Request /\ longest_prefix' = request'.uri
        /\ pc' = "loop" /\ called' = None /\ handlers' = handlers
    BY <1>2 DEF Call
  <2>2. /\ request'.uri \in Seq(Segment) /\ Len(request'.uri) \in Nat \ {0}
        /\ request'.uri = SubSeq(request'.uri, 1, Len(request'.uri))
    BY <2>1, UriFacts
  <2>3. TypeOK'
    BY <2>1, <2>2 DEF IndInv, TypeOK, None
  <2>4. Searching'
    BY <2>1, <2>2 DEF Searching
  <2> QED
    BY <2>1, <2>3, <2>4 DEF IndInv, Found, NotCalled, RoutesToLongest
<1>3. CASE Shorten
  <2>0. PICK n : n = Len(longest_prefix)
    OBVIOUS
  <2>1. /\ pc = "loop" /\ pc' = "loop" /\ longest_prefix # <<>>
        /\ longest_prefix \notin handlers
        /\ longest_prefix' = Parent(longest_prefix)
        /\ UNCHANGED <<handlers, request, called>>
    BY <1>3 DEF Shorten
  <2>2. /\ n \in 1..Len(request.uri)
        /\ longest_prefix = SubSeq(request.uri, 1, n)
        /\ \A j \in (n + 1)..Len(request.uri) : ~Handled(j)
    BY <1>0, <2>0, <2>1 DEF IndInv, Searching
  <2>3. /\ longest_prefix' = SubSeq(request.uri, 1, n - 1)
        /\ longest_prefix' \in Seq(Segment)
        /\ Len(longest_prefix') = n - 1
    <3>1. /\ Parent(SubSeq(request.uri, 1, n)) = SubSeq(request.uri, 1, n - 1)
          /\ SubSeq(request.uri, 1, n - 1) \in Seq(Segment)
          /\ Len(SubSeq(request.uri, 1, n - 1)) = n - 1
      BY <1>0, <2>2, ParentOfPrefix
    <3>2. longest_prefix' = SubSeq(request.uri, 1, n - 1)
      BY <2>1, <2>2, <3>1
    <3> QED BY <3>1, <3>2
  <2>4. \A j \in n..Len(request.uri) : ~Handled(j)
    <3>1. ~Handled(n)
      BY <2>1, <2>2 DEF Handled
    <3>2. \A j \in n..Len(request.uri) : j = n \/ j \in (n + 1)..Len(request.uri)
      BY <1>0, <2>2
    <3> QED BY <2>2, <3>1, <3>2
  <2>5. TypeOK'
    BY <2>1, <2>3 DEF IndInv, TypeOK
  <2>6. Searching'
    BY <1>0, <2>1, <2>2, <2>3, <2>4 DEF Searching, Handled
  <2> QED
    BY <2>1, <2>5, <2>6 DEF IndInv, Found, NotCalled, RoutesToLongest
<1>4. CASE LeaveLoop
  <2>1. /\ pc = "loop"
        /\ UNCHANGED <<handlers, request, longest_prefix, called>>
    BY <1>4 DEF LeaveLoop
  <2>2. CASE longest_prefix = <<>>
    <3>1. pc' = "referer"
      BY <1>4, <2>2 DEF LeaveLoop
    <3> QED
      BY <2>1, <2>2, <3>1 DEF IndInv, TypeOK, Searching, Found, NotCalled,
                              RoutesToLongest, Handled
  <2>3. CASE longest_prefix # <<>>
    <3>1. pc' = "dispatch" /\ longest_prefix \in handlers
      BY <1>4, <2>3 DEF LeaveLoop
    <3>2. Len(longest_prefix) \in 1..Len(request.uri)
      BY <1>0, <2>1, <2>3 DEF IndInv, Searching
    <3>3. Found'
      BY <1>0, <2>1, <3>1, <3>2 DEF IndInv, Searching, Found, Handled
    <3> QED
      BY <2>1, <3>1, <3>3 DEF IndInv, TypeOK, Searching, NotCalled,
                              RoutesToLongest
  <2> QED BY <2>2, <2>3
<1>5. CASE TryReferer
  <2>1. /\ pc = "referer"
        /\ UNCHANGED <<handlers, request, called>>
    BY <1>5 DEF TryReferer
  <2>2. \A k \in 1..Len(request.uri) : ~Handled(k)
    BY <1>0, <2>1 DEF IndInv, Searching
  <2>3. CASE FollowsProxy
    <3>1. longest_prefix' = Root /\ pc' = "dispatch"
      BY <1>5, <2>3 DEF TryReferer
    <3>2. Root \in Seq(Segment) /\ Root \in handlers
      <4>1. \A e \in Segment : <<e>> \in Seq(Segment)
        OBVIOUS
      <4>2. Root \in Seq(Segment)
        BY <4>1, SegmentAssumption, Zenon DEF Root
      <4> QED BY <2>3, <4>2 DEF FollowsProxy
    <3>3. Found'
      BY <2>1, <2>2, <2>3, <3>1, <3>2 DEF Found, Handled, FollowsProxy
    <3> QED
      BY <2>1, <3>1, <3>2, <3>3 DEF IndInv, TypeOK, Searching, NotCalled,
                                    RoutesToLongest
  <2>4. CASE ~FollowsProxy
    <3>1. longest_prefix' = longest_prefix /\ pc' = "done"
      BY <1>5, <2>4 DEF TryReferer
    <3>2. called = None
      BY <2>1 DEF IndInv, NotCalled
    <3>3. RoutesToLongest'
      BY <2>1, <2>2, <2>4, <3>1, <3>2 DEF RoutesToLongest, Handled, FollowsProxy
    <3> QED
      BY <2>1, <3>1, <3>3 DEF IndInv, TypeOK, Searching, Found, NotCalled
  <2> QED BY <2>3, <2>4
<1>6. CASE Dispatch
  <2>1. /\ pc = "dispatch" /\ pc' = "done" /\ called' = longest_prefix
        /\ UNCHANGED <<request, longest_prefix>>
    BY <1>6 DEF Dispatch
  <2>2. longest_prefix \in handlers
    BY <2>1 DEF IndInv, Found
  <2>3. handlers' = handlers
    BY <1>6, <2>2 DEF Dispatch
  <2>4. TypeOK'
    BY <2>1, <2>3 DEF IndInv, TypeOK
  <2>5. RoutesToLongest'
    BY <2>1, <2>3 DEF IndInv, Found, RoutesToLongest, Handled, FollowsProxy
  <2> QED
    BY <2>1, <2>4, <2>5 DEF IndInv, Searching, Found, NotCalled
<1> QED
  BY <1>1, <1>2, <1>3, <1>4, <1>5, <1>6 DEF Next

-----------------------------------------------------------------------------
\* The inductive invariant holds in every reachable state.
THEOREM Invariance == Spec => []IndInv
<1>1. Init => IndInv
  BY InitInv
<1>2. IndInv /\ [Next]_vars => IndInv'
  BY NextInv
<1> QED
  BY <1>1, <1>2, PTL DEF Spec

\* Type correctness of ProcessRequest.
THEOREM TypeCorrect == Spec => []TypeOK
<1>1. IndInv => TypeOK
  BY DEF IndInv
<1> QED
  BY <1>1, Invariance, PTL

\* Whatever handlers are configured, the loop and the Referer fallback of
\* ProcessRequest call the handler the reference names.
THEOREM LongestPrefixRouting == Spec => []RoutesToLongest
<1>1. IndInv => RoutesToLongest
  BY DEF IndInv
<1> QED
  BY <1>1, Invariance, PTL

\* ProcessRequest never inserts into the shared handlers map.
THEOREM HandlersMapUntouched == Spec => HandlersNeverGrow
<1>1. IndInv /\ [Next]_vars => [handlers' = handlers]_vars
  <2> SUFFICES ASSUME IndInv, Next PROVE handlers' = handlers
    BY DEF vars
  <2>1. CASE Dispatch
    BY <2>1 DEF Dispatch, IndInv, Found
  <2> QED
    BY <2>1 DEF Next, Call, Shorten, LeaveLoop, TryReferer
<1> QED
  BY <1>1, Invariance, PTL DEF Spec, HandlersNeverGrow
=============================================================================
