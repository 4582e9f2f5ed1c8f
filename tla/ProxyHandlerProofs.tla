------------------------ MODULE ProxyHandlerProofs ------------------------
(***************************************************************************)
(* Proofs about ProxyHandler, for any number of objects, threads, origins  *)
(* and redirects.                                                          *)
(***************************************************************************)
EXTENDS ProxyHandler, TLAPS

(***************************************************************************)
(* What TypeOK lacks to be inductive: what is about to be stored has the   *)
(* code and the expiration of a response of an origin, which Enter and     *)
(* ReturnToUpdate put into the map.                                        *)
(***************************************************************************)
Storing == {"open", "write", "enter"}

Frames ==
  {f \in FrameType :
     /\ f.pc \in Storing => f.response.code \in Codes
     /\ f.pc \in Storing \/ f.response.code = 304 => f.response.expiration # Forever}

StackOK == stack \in [Threads -> Seq(Frames)]
TypeInv == TypeOK /\ StackOK

-----------------------------------------------------------------------------
(***************************************************************************)
(* Stacks.                                                                 *)
(***************************************************************************)
LEMMA PopType ==
  ASSUME NEW S, NEW s \in Seq(S), s # <<>>
  PROVE  /\ Last(s) \in S
         /\ Front(s) \in Seq(S)
         /\ Len(Front(s)) = Len(s) - 1
         /\ \A i \in 1..(Len(s) - 1) : Front(s)[i] = s[i]
<1>1. Len(s) \in Nat /\ Len(s) # 0 /\ s \in [1..Len(s) -> S]
  OBVIOUS
<1>2. Last(s) \in S
  BY <1>1 DEF Last
<1>3. Front(s) \in Seq(S) /\ Len(Front(s)) = Len(s) - 1
  BY <1>1 DEF Front
<1>4. \A i \in 1..(Len(s) - 1) : Front(s)[i] = s[i]
  BY <1>1 DEF Front
<1> QED
  BY <1>2, <1>3, <1>4

LEMMA PushType ==
  ASSUME NEW S, NEW s \in Seq(S), NEW x \in S
  PROVE  /\ s \o <<x>> \in Seq(S)
         /\ s \o <<x>> # <<>>
         /\ s # <<>> => (s \o <<x>>)[1] = s[1]
         /\ s = <<>> => (s \o <<x>>)[1] = x
OBVIOUS

LEMMA PushTwo ==
  ASSUME NEW S, NEW s \in Seq(S), NEW x \in S, NEW y \in S
  PROVE  (s \o <<x>>) \o <<y>> = s \o <<x, y>>
<1>1. \A u \in Seq(S), z \in S : u \o <<z>> = Append(u, z) /\ Append(u, z) \in Seq(S)
  OBVIOUS
<1>2. Append(Append(s, x), y) = s \o <<x, y>>
  OBVIOUS
<1> QED
  BY <1>1, <1>2, Zenon

\* The innermost frame is one of the stack's.
LEMMA TopType ==
  ASSUME NEW S, NEW t \in Threads, stack[t] \in Seq(S), stack[t] # <<>>
  PROVE  Top(t) \in S
BY PopType DEF Top

\* SetTop changes the innermost frame of one thread.
LEMMA SetTopType ==
  ASSUME NEW S, NEW t \in Threads, NEW f \in S,
         stack = [u \in Threads |-> stack[u]],
         stack[t] \in Seq(S), stack[t] # <<>>, SetTop(t, f)
  PROVE  /\ stack' = [stack EXCEPT ![t] = stack'[t]]
         /\ stack'[t] \in Seq(S)
         /\ stack'[t] # <<>>
<1>1. stack'[t] = Front(stack[t]) \o <<f>> /\ stack' = [stack EXCEPT ![t] = stack'[t]]
  BY DEF SetTop
<1>2. Front(stack[t]) \in Seq(S)
  BY PopType
<1> QED
  BY <1>1, <1>2, PushType

-----------------------------------------------------------------------------
(***************************************************************************)
(* Types of what the actions make.                                         *)
(***************************************************************************)
LEMMA ResourceType ==
  /\ \A o \in Origins, u \in Uris : <<o, u>> \in Resources
  /\ \A r \in Resources : r[1] \in Origins /\ r[2] \in Uris
BY DEF Resources

LEMMA NoResponseType ==
  /\ NoResponse \in ResponseType
  /\ NoResponse.code = 0 /\ NoResponse.expiration # Forever /\ NoResponse.body = NoBody
BY DEF NoResponse, ResponseType, BodyType, Directive, NotADateTime, Forever, NoTag

LEMMA ReceivedType ==
  ASSUME clock \in Nat, NEW code \in Codes \cup {304}, NEW body \in BodyType,
         NEW d \in Directive, NEW e_tag \in Nat \cup {NoTag}
  PROVE  /\ Received(code, body, d, e_tag) \in ResponseType
         /\ Received(code, body, d, e_tag).code = code
         /\ Received(code, body, d, e_tag).body = body
         /\ Received(code, body, d, e_tag).expiration # Forever
<1>1. clock + MaxAge \in Nat
  BY ProxyBoundsAssumption
<1> DEFINE x == IF d = "max-age" THEN clock + MaxAge ELSE NotADateTime
<1>2. x \in Nat \cup {NotADateTime} /\ x # Forever
  BY <1>1 DEF NotADateTime, Forever
<1>3. PICK r : r = Received(code, body, d, e_tag)
  OBVIOUS
<1>4. r = [NoResponse EXCEPT !.ok = TRUE, !.code = code, !.body = body, !.directive = d,
             !.expiration = x, !.e_tag = e_tag]
  BY <1>3 DEF Received
<1> HIDE DEF x
<1>5. r = [ok |-> TRUE, code |-> code, body |-> body, whole |-> TRUE, source |-> "origin",
           directive |-> d, expiration |-> x, e_tag |-> e_tag]
  BY <1>4 DEF NoResponse
<1>6. r \in ResponseType /\ r.code = code /\ r.body = body /\ r.expiration # Forever
  BY <1>2, <1>5 DEF ResponseType
<1> QED
  BY <1>3, <1>6

LEMMA FrameOK ==
  ASSUME NEW h \in Handlers, NEW uri \in Uris, NEW tag \in Nat \cup {NoTag}
  PROVE  /\ Frame(h, uri, tag) \in Frames
         /\ Frame(h, uri, tag).uri = Strip(h, uri)
         /\ Frame(h, uri, tag).path = PathOf(Strip(h, uri))
         /\ Frame(h, uri, tag).target = <<Origin[h], Strip(h, uri)>>
         /\ Frame(h, uri, tag).response = NoResponse
<1>1. Strip(h, uri) \in Uris /\ PathOf(Strip(h, uri)) \in Paths
  BY UrisAssumption DEF Paths
<1>2. <<Origin[h], Strip(h, uri)>> \in Resources
  BY <1>1, OriginAssumption, ResourceType
<1> QED
  BY <1>1, <1>2, NoResponseType DEF Frame, Frames, FrameType, Storing

\* The frame of the request that UpdateCache makes.
LEMMA UpdateOK ==
  ASSUME NEW h \in Handlers, NEW uri \in Uris, NEW tag \in Nat \cup {NoTag}
  PROVE  LET k == [Frame(h, uri, tag) EXCEPT !.pc = "erase"]
         IN  /\ k \in Frames
             /\ k.uri = Strip(h, uri) /\ k.path = PathOf(Strip(h, uri))
             /\ k.target = <<Origin[h], Strip(h, uri)>> /\ k.response = NoResponse
             /\ k.pc = "erase" /\ k.if_none_match = tag
<1>1. Frame(h, uri, tag) \in Frames /\ Frame(h, uri, tag).if_none_match = tag
  BY FrameOK DEF Frame
<1>2. PICK f \in Frames : f = Frame(h, uri, tag)
  BY <1>1
<1>3. LET k == [f EXCEPT !.pc = "erase"]
      IN  /\ k \in Frames /\ k.uri = f.uri /\ k.path = f.path /\ k.target = f.target
          /\ k.response = f.response /\ k.pc = "erase" /\ k.if_none_match = f.if_none_match
  BY DEF Frames, FrameType, Storing
<1> QED
  BY <1>1, <1>2, <1>3, FrameOK

\* A frame that goes on as it is.
LEMMA GotoOK ==
  ASSUME NEW f \in Frames,
         NEW pc \in {"find", "check", "tag", "read", "updating", "fetch", "return", "spin"}
  PROVE  [f EXCEPT !.pc = pc] \in Frames
<1> QED
  BY DEF Frames, FrameType, Storing

\* A frame that returns a response.
LEMMA ReturnOK ==
  ASSUME NEW f \in Frames, NEW r \in ResponseType,
         r.code = 304 => r.expiration # Forever
  PROVE  [f EXCEPT !.pc = "return", !.response = r] \in Frames
BY DEF Frames, FrameType, Storing

\* A frame that stores a response.
LEMMA StoreOK ==
  ASSUME NEW f \in Frames, NEW r \in ResponseType, r.code \in Codes, r.expiration # Forever
  PROVE  [f EXCEPT !.pc = "open", !.response = r] \in Frames
BY DEF Frames, FrameType, Storing

LEMMA StoringOK ==
  ASSUME NEW f \in Frames, f.pc \in Storing, NEW pc \in {"write", "enter", "return"}
  PROVE  [f EXCEPT !.pc = pc] \in Frames
BY DEF Frames, FrameType, Storing

LEMMA FrameStacks == Seq(Frames) \subseteq Seq(FrameType)
<1>1. Frames \subseteq FrameType
  BY DEF Frames
<1> QED
  BY <1>1

\* What SetTop and Goto do to the stacks.
LEMMA SetTopOK ==
  ASSUME StackOK, NEW t \in Threads, stack[t] # <<>>, NEW f \in Frames, SetTop(t, f)
  PROVE  StackOK'
<1>1. stack[t] \in Seq(Frames) /\ stack = [u \in Threads |-> stack[u]]
  BY DEF StackOK
<1>2. stack'[t] \in Seq(Frames) /\ stack' = [stack EXCEPT ![t] = stack'[t]]
  BY <1>1, SetTopType, Zenon
<1> QED
  BY <1>1, <1>2 DEF StackOK

LEMMA TopOK ==
  ASSUME StackOK, NEW t \in Threads, stack[t] # <<>>
  PROVE  Top(t) \in Frames
BY TopType DEF StackOK

-----------------------------------------------------------------------------
(***************************************************************************)
(* Type correctness.                                                       *)
(***************************************************************************)
LEMMA InitType == Init => TypeInv
<1> SUFFICES ASSUME Init PROVE TypeInv
  OBVIOUS
<1>1. StackOK /\ stack \in [Threads -> Seq(FrameType)]
  BY DEF Init, StackOK
<1>2. cache \in [Handlers -> [Paths -> EntryType]] /\ disk \in [Paths -> FileType]
  BY DEF Init, Absent, Default, Entry, EntryType, NoFile, FileType, BodyType,
         NotADateTime, NoTag
<1>3. client \in [Threads -> [h: Handlers, uri: Uris, arrived: Nat]]
  BY UrisAssumption DEF Init
<1>4. changed \in [Resources -> Seq(Nat)] /\ reply \in [Threads -> ResponseType]
  BY NoResponseType DEF Init
<1> QED
  BY <1>1, <1>2, <1>3, <1>4 DEF Init, TypeInv, TypeOK

\* A step that leaves all but the stacks and the replies as they are.
LEMMA StackStepType ==
  ASSUME TypeOK, StackOK', reply' \in [Threads -> ResponseType],
         UNCHANGED <<clock, changed, cache, disk, dirs, client, issued, terminated>>
  PROVE  TypeInv'
<1>1. stack' \in [Threads -> Seq(FrameType)]
  BY FrameStacks DEF StackOK
<1> QED
  BY <1>1 DEF TypeInv, TypeOK

LEMMA HandlerType ==
  ASSUME TypeOK, NEW t \in Threads
  PROVE  Handler(t) \in Handlers /\ client[t].uri \in Uris
BY DEF TypeOK, Handler

\* The map's entries are typed, and those a lookup makes.
LEMMA EntryOK ==
  ASSUME TypeOK, NEW h \in Handlers, NEW p \in Paths
  PROVE  At(h, p) \in EntryType
BY DEF TypeOK, At, Default, Entry, EntryType, NotADateTime, NoTag

LEMMA FindType == ASSUME TypeInv, NEW t \in Threads, Find(t) PROVE TypeInv'
<1>1. stack[t] # <<>> /\ Top(t) \in Frames
  BY TopOK DEF Find, AtPc, TypeInv
<1>2. PICK pc \in {"check", "fetch"} : Goto(t, pc)
  BY DEF Find
<1>3. StackOK'
  BY <1>1, <1>2, GotoOK, SetTopOK DEF Goto, TypeInv
<1> QED
  BY <1>3, StackStepType DEF Find, TypeInv, TypeOK

LEMMA CheckType == ASSUME TypeInv, NEW t \in Threads, Check(t) PROVE TypeInv'
<1> DEFINE h == Handler(t)
           f == Top(t)
           e == At(h, f.path)
<1>1. stack[t] # <<>> /\ f \in Frames /\ h \in Handlers /\ f.path \in Paths
  BY TopOK, HandlerType DEF Check, AtPc, TypeInv, Frames, FrameType
<1>2. e \in EntryType
  BY <1>1, EntryOK DEF TypeInv
<1>3. PICK pc \in {"tag", "read"} : Goto(t, pc)
  BY DEF Check
<1>4. StackOK'
  BY <1>1, <1>3, GotoOK, SetTopOK DEF Goto, TypeInv
<1>5. cache' \in [Handlers -> [Paths -> EntryType]]
  BY <1>1, <1>2 DEF Check, TypeInv, TypeOK
<1>6. stack' \in [Threads -> Seq(FrameType)]
  BY <1>4, FrameStacks DEF StackOK
<1> QED
  BY <1>4, <1>5, <1>6 DEF Check, TypeInv, TypeOK

LEMMA TakeTagType == ASSUME TypeInv, NEW t \in Threads, TakeTag(t) PROVE TypeInv'
<1> DEFINE h == Handler(t)
           f == Top(t)
           e == At(h, f.path)
           g == [f EXCEPT !.pc = "updating"]
           k == [Frame(h, f.uri, e.e_tag) EXCEPT !.pc = "erase"]
<1>1. stack[t] # <<>> /\ f \in Frames /\ h \in Handlers /\ f.path \in Paths /\ f.uri \in Uris
  BY TopOK, HandlerType DEF TakeTag, AtPc, TypeInv, Frames, FrameType
<1>2. e \in EntryType
  BY <1>1, EntryOK DEF TypeInv
<1>3. g \in Frames /\ k \in Frames
  BY <1>1, <1>2, GotoOK, UpdateOK DEF EntryType
<1>4. Front(stack[t]) \in Seq(Frames)
  BY <1>1, PopType DEF TypeInv, StackOK
<1>5. Front(stack[t]) \o <<g, k>> \in Seq(Frames)
  <2> HIDE DEF g, k
  <2> QED BY <1>3, <1>4
<1>6. StackOK'
  BY <1>5 DEF TakeTag, TypeInv, StackOK
<1>7. cache' \in [Handlers -> [Paths -> EntryType]]
  BY <1>1, <1>2 DEF TakeTag, TypeInv, TypeOK
<1>8. stack' \in [Threads -> Seq(FrameType)]
  BY <1>6, FrameStacks DEF StackOK
<1> QED
  BY <1>6, <1>7, <1>8 DEF TakeTag, TypeInv, TypeOK

LEMMA EraseType == ASSUME TypeInv, NEW t \in Threads, Erase(t) PROVE TypeInv'
<1> DEFINE updated == Last(Front(stack[t])).path
<1>1. stack[t] # <<>> /\ Top(t) \in Frames
  BY TopOK DEF Erase, AtPc, TypeInv
<1>2. StackOK'
  BY <1>1, GotoOK, SetTopOK DEF Erase, Goto, TypeInv
<1>3. cache' \in [Handlers -> [Paths -> EntryType]]
  <2>1. cache' = [cache EXCEPT ![Handler(t)][updated] = Absent]
    BY DEF Erase
  <2> HIDE DEF updated
  <2> QED
    BY <2>1 DEF TypeInv, TypeOK, Absent, Default, Entry, EntryType, NotADateTime, NoTag
<1>4. stack' \in [Threads -> Seq(FrameType)]
  BY <1>2, FrameStacks DEF StackOK
<1> QED
  BY <1>2, <1>3, <1>4 DEF Erase, TypeInv, TypeOK

\* What is read of a file.
FromFile(code, body, whole, expiration) ==
  [ok |-> TRUE, code |-> code, body |-> body, whole |-> whole, source |-> "cache",
   directive |-> "none", expiration |-> expiration, e_tag |-> NoTag]

LEMMA FromFileType ==
  ASSUME NEW code \in {0} \cup Codes, NEW body \in BodyType, NEW whole \in BOOLEAN,
         NEW expiration \in Nat \cup {NotADateTime, Forever}
  PROVE  /\ FromFile(code, body, whole, expiration) \in ResponseType
         /\ FromFile(code, body, whole, expiration).code = code
         /\ FromFile(code, body, whole, expiration).body = body
BY DEF FromFile, ResponseType, Directive

LEMMA ReadType == ASSUME TypeInv, NEW t \in Threads, Read(t) PROVE TypeInv'
<1> DEFINE h == Handler(t)
           f == Top(t)
           file == disk[f.path]
           e == At(h, f.path)
           empty == [NoResponse EXCEPT !.ok = TRUE, !.whole = FALSE, !.source = "cache"]
           stored ==
             [NoResponse EXCEPT
                !.ok = TRUE, !.code = file.code, !.body = file.body,
                !.whole = file.state = "whole", !.source = "cache",
                !.expiration = IF e.expiration = NotADateTime THEN Forever ELSE e.expiration]
<1>1. stack[t] # <<>> /\ f \in Frames /\ h \in Handlers /\ f.path \in Paths
  BY TopOK, HandlerType DEF Read, AtPc, TypeInv, Frames, FrameType
<1>2. e \in EntryType /\ file \in FileType
  BY <1>1, EntryOK DEF TypeInv, TypeOK
<1>3. CASE Goto(t, "spin") /\ UNCHANGED cache
  <2>1. StackOK'
    BY <1>1, <1>3, GotoOK, SetTopOK DEF Goto, TypeInv
  <2> QED
    BY <1>3, <2>1, StackStepType DEF Read, TypeInv, TypeOK
<1>4. CASE SetTop(t, [f EXCEPT !.pc = "return", !.response = empty]) /\ UNCHANGED cache
  <2>1. empty \in ResponseType /\ empty.code = 0
    BY NoResponseType DEF NoResponse, ResponseType
  <2>2. [f EXCEPT !.pc = "return", !.response = empty] \in Frames
    <3>1. empty.code # 304
      BY <2>1
    <3> HIDE DEF empty, f
    <3> QED BY <1>1, <2>1, <3>1, ReturnOK, Zenon
  <2>3. StackOK'
    BY <1>1, <1>4, <2>2, SetTopOK DEF TypeInv
  <2> QED
    BY <1>4, <2>3, StackStepType DEF Read, TypeInv, TypeOK
<1>5. CASE /\ cache' = [cache EXCEPT ![h][f.path] = e]
           /\ SetTop(t, [f EXCEPT !.pc = "return", !.response = stored])
  <2>1. stored \in ResponseType /\ stored.code \in {0} \cup Codes
    <3> DEFINE code == file.code
               body == file.body
               whole == file.state = "whole"
               expiration == IF e.expiration = NotADateTime THEN Forever ELSE e.expiration
    <3>1. code \in {0} \cup Codes /\ body \in BodyType /\ whole \in BOOLEAN
      BY <1>2 DEF FileType
    <3>2. e.expiration \in Nat \cup {NotADateTime}
      BY <1>2 DEF EntryType
    <3>3. expiration \in Nat \cup {NotADateTime, Forever}
      BY <3>2
    <3>4. stored = [NoResponse EXCEPT !.ok = TRUE, !.code = code, !.body = body,
                      !.whole = whole, !.source = "cache", !.expiration = expiration]
      OBVIOUS
    <3> HIDE DEF stored, code, body, whole, expiration
    <3>5. stored = FromFile(code, body, whole, expiration)
      BY <3>4 DEF FromFile, NoResponse
    <3> QED
      BY <3>1, <3>3, <3>5, FromFileType
  <2>5. [f EXCEPT !.pc = "return", !.response = stored] \in Frames
    <3>1. stored.code # 304
      BY <2>1, CodesAssumption
    <3> HIDE DEF stored, f
    <3> QED BY <1>1, <2>1, <3>1, ReturnOK
  <2>2. StackOK'
    BY <1>1, <1>5, <2>5, SetTopOK DEF TypeInv
  <2>3. cache' \in [Handlers -> [Paths -> EntryType]]
    BY <1>1, <1>2, <1>5 DEF TypeInv, TypeOK
  <2>4. stack' \in [Threads -> Seq(FrameType)]
    BY <2>2, FrameStacks DEF StackOK
  <2> QED
    BY <2>2, <2>3, <2>4 DEF Read, TypeInv, TypeOK
<1> QED
  BY <1>3, <1>4, <1>5 DEF Read

\* Where a Location leads is a resource, and the Location of what came before.
LEMMA ParseLocationType ==
  ASSUME NEW r \in Resources, r \in DOMAIN Redirect
  PROVE  ParseLocation(r) \in Resources
<1>1. Redirect[r].host \in Origins \cup {"same"} /\ Redirect[r].uri \in Uris
  BY RedirectAssumption
<1> QED
  BY <1>1, ResourceType DEF ParseLocation

LEMMA FetchingType ==
  ASSUME TypeInv, NEW t \in Threads, FollowRedirect(t) \/ FetchFails(t) \/ Fetch(t)
  PROVE  TypeInv'
<1> DEFINE f == Top(t)
           v == Version(f.target)
           body == [of |-> f.target, ver |-> v]
<1>1. stack[t] # <<>> /\ f \in Frames /\ f.target \in Resources
  BY TopOK DEF FollowRedirect, FetchFails, Fetch, AtPc, TypeInv, Frames, FrameType
<1>2. v \in Nat /\ body \in BodyType /\ clock \in Nat
  BY <1>1 DEF Version, BodyType, TypeInv, TypeOK
<1>3. ASSUME StackOK' PROVE TypeInv'
  BY <1>3, StackStepType DEF FollowRedirect, FetchFails, Fetch, TypeInv, TypeOK
<1>4. CASE FollowRedirect(t)
  <2>1. ParseLocation(f.target) \in Resources /\ f.pc = "fetch"
    BY <1>1, <1>4, ParseLocationType DEF FollowRedirect, AtPc
  <2>2. [f EXCEPT !.target = ParseLocation(@)] \in Frames
    BY <1>1, <2>1 DEF Frames, FrameType, Storing
  <2> QED
    BY <1>1, <1>3, <1>4, <2>2, SetTopOK DEF FollowRedirect, TypeInv
<1>5. CASE FetchFails(t)
  <2>1. [f EXCEPT !.pc = "return", !.response = NoResponse] \in Frames
    BY <1>1, NoResponseType, ReturnOK
  <2> QED
    BY <1>1, <1>3, <1>5, <2>1, SetTopOK DEF FetchFails, TypeInv
<1>6. CASE Fetch(t)
  <2>1. NoBody \in BodyType /\ v \in Nat \cup {NoTag} /\ NoTag \in Nat \cup {NoTag}
    BY <1>2 DEF BodyType
  <2>2. ASSUME NEW d \in Revalidation, NEW tag \in Nat \cup {NoTag},
               SetTop(t, [f EXCEPT !.pc = "return", !.response = Received(304, NoBody, d, tag)])
        PROVE  TypeInv'
    <3> DEFINE r == Received(304, NoBody, d, tag)
    <3>1. r \in ResponseType /\ r.expiration # Forever
      BY <1>2, <2>1, RevalidationAssumption, ReceivedType
    <3> HIDE DEF r
    <3>2. [f EXCEPT !.pc = "return", !.response = r] \in Frames
      BY <1>1, <3>1, ReturnOK
    <3> QED
      BY <1>1, <1>3, <2>2, <3>2, SetTopOK DEF TypeInv, r
  <2>3. ASSUME NEW code \in Codes, NEW d \in CacheControl[f.target[2]],
               NEW tag \in Nat \cup {NoTag}, NEW pc \in {"open", "return"},
               SetTop(t, [f EXCEPT !.pc = pc, !.response = Received(code, body, d, tag)])
        PROVE  TypeInv'
    <3> DEFINE r == Received(code, body, d, tag)
    <3>1. d \in Directive
      BY <1>1, ResourceType, CacheControlAssumption
    <3>2. r \in ResponseType /\ r.code = code /\ r.expiration # Forever
      <4> HIDE DEF body
      <4> QED BY <1>2, <3>1, ReceivedType
    <3> HIDE DEF r
    <3>3. [f EXCEPT !.pc = pc, !.response = r] \in Frames
      BY <1>1, <3>2, ReturnOK, StoreOK
    <3> QED
      BY <1>1, <1>3, <2>3, <3>3, SetTopOK DEF TypeInv, r
  <2>4. \/ \E d \in Revalidation :
              SetTop(t, [f EXCEPT !.pc = "return",
                !.response = Received(304, NoBody, d, IF TagHeader = "Etag" THEN v ELSE NoTag)])
        \/ \E code \in Codes, d \in CacheControl[f.target[2]] :
              SetTop(t, [f EXCEPT !.pc = IF d = "max-age" THEN "open" ELSE "return",
                !.response = Received(code, body, d, IF TagHeader = "ETag" THEN v ELSE NoTag)])
    BY <1>6, Zenon DEF Fetch
  <2>5. CASE \E d \in Revalidation :
               SetTop(t, [f EXCEPT !.pc = "return",
                 !.response = Received(304, NoBody, d, IF TagHeader = "Etag" THEN v ELSE NoTag)])
    <3>1. (IF TagHeader = "Etag" THEN v ELSE NoTag) \in Nat \cup {NoTag}
      BY <2>1
    <3>2. PICK d \in Revalidation :
            SetTop(t, [f EXCEPT !.pc = "return",
              !.response = Received(304, NoBody, d, IF TagHeader = "Etag" THEN v ELSE NoTag)])
      BY <2>5
    <3> DEFINE tag == IF TagHeader = "Etag" THEN v ELSE NoTag
    <3>3. tag \in Nat \cup {NoTag}
      BY <3>1
    <3>4. SetTop(t, [f EXCEPT !.pc = "return", !.response = Received(304, NoBody, d, tag)])
      BY <3>2
    <3> HIDE DEF tag, f
    <3> QED
      BY <2>2, <3>3, <3>4
  <2>6. CASE \E code \in Codes, d \in CacheControl[f.target[2]] :
               SetTop(t, [f EXCEPT !.pc = IF d = "max-age" THEN "open" ELSE "return",
                 !.response = Received(code, body, d, IF TagHeader = "ETag" THEN v ELSE NoTag)])
    <3>1. (IF TagHeader = "ETag" THEN v ELSE NoTag) \in Nat \cup {NoTag}
      BY <2>1
    <3>2. \A d : (IF d = "max-age" THEN "open" ELSE "return") \in {"open", "return"}
      OBVIOUS
    <3> QED
      BY <2>3, <2>6, <3>1, <3>2, Zenon
  <2> QED
    BY <2>4, <2>5, <2>6, Zenon
<1> QED
  BY <1>4, <1>5, <1>6

LEMMA StoringType ==
  ASSUME TypeInv, NEW t \in Threads, Open(t) \/ Write(t) \/ Enter(t)
  PROVE  TypeInv'
<1> DEFINE f == Top(t)
<1>1. /\ stack[t] # <<>> /\ f \in Frames /\ f.pc \in Storing
      /\ f.path \in Paths /\ f.response \in ResponseType
  BY TopOK DEF Open, Write, Enter, AtPc, TypeInv, Frames, FrameType, Storing
<1>2. f.response.code \in Codes /\ f.response.expiration # Forever
  BY <1>1 DEF Frames
<1>3. ASSUME NEW pc \in {"write", "enter", "return"}, Goto(t, pc)
      PROVE  StackOK' /\ stack' \in [Threads -> Seq(FrameType)]
  <2>1. StackOK'
    BY <1>1, <1>3, StoringOK, SetTopOK DEF Goto, TypeInv
  <2> QED
    BY <2>1, FrameStacks DEF StackOK
<1>4. NoFile \in FileType /\ [NoFile EXCEPT !.state = "empty"] \in FileType
  BY DEF NoFile, FileType, BodyType
<1>5. CASE Open(t)
  <2>1. PICK pc \in {"write", "enter"} : Goto(t, pc)
    BY <1>5 DEF Open
  <2>2. disk' \in [Paths -> FileType]
    BY <1>1, <1>4, <1>5 DEF Open, TypeInv, TypeOK
  <2>3. \A d \in dirs' : \E p \in Paths : d \in DirsAbove(p)
    BY <1>1, <1>5 DEF Open, TypeInv, TypeOK
  <2> QED
    BY <1>3, <1>5, <2>1, <2>2, <2>3 DEF Open, TypeInv, TypeOK
<1>6. CASE Write(t)
  <2>1. PICK state \in {"whole", "mixed"} :
          disk' = [disk EXCEPT ![f.path] =
                     [state |-> state, code |-> f.response.code, body |-> f.response.body]]
    BY <1>6 DEF Write
  <2>2. f.response.body \in BodyType
    BY <1>1 DEF ResponseType
  <2>3. [state |-> state, code |-> f.response.code, body |-> f.response.body] \in FileType
    BY <1>2, <2>2 DEF FileType
  <2>4. disk' \in [Paths -> FileType]
    BY <1>1, <2>1, <2>3 DEF TypeInv, TypeOK
  <2> QED
    BY <1>3, <1>6, <2>4 DEF Write, TypeInv, TypeOK
<1>7. CASE Enter(t)
  <2>1. Entry(f.response.expiration, f.response.e_tag) \in EntryType
    BY <1>1, <1>2 DEF Entry, EntryType, ResponseType
  <2>2. cache' \in [Handlers -> [Paths -> EntryType]]
    BY <1>1, <1>7, <2>1, HandlerType DEF Enter, TypeInv, TypeOK
  <2> QED
    BY <1>3, <1>7, <2>2 DEF Enter, TypeInv, TypeOK
<1> QED
  BY <1>5, <1>6, <1>7

LEMMA ReturnType ==
  ASSUME TypeInv, NEW t \in Threads, ReturnToClient(t) \/ ReturnToUpdate(t)
  PROVE  TypeInv'
<1>1. stack[t] # <<>> /\ Top(t) \in Frames /\ Top(t).response \in ResponseType
  BY TopOK DEF ReturnToClient, ReturnToUpdate, Processing, AtPc, TypeInv, Frames, FrameType
<1>2. CASE ReturnToClient(t)
  <2>1. StackOK'
    BY <1>2 DEF ReturnToClient, TypeInv, StackOK
  <2>2. reply' \in [Threads -> ResponseType]
    BY <1>1, <1>2 DEF ReturnToClient, TypeInv, TypeOK
  <2> QED
    BY <1>2, <2>1, <2>2, StackStepType DEF ReturnToClient, TypeInv
<1>3. CASE ReturnToUpdate(t)
  <2> DEFINE r == Top(t).response
             below == Front(stack[t])
             f == Last(below)
             g == [f EXCEPT !.pc = Updated(r)]
  <2>1. below \in Seq(Frames) /\ below # <<>>
    <3>1. stack[t] \in Seq(Frames) /\ Len(stack[t]) > 1
      BY <1>3 DEF ReturnToUpdate, Processing, TypeInv, StackOK
    <3>2. below \in Seq(Frames) /\ Len(below) = Len(stack[t]) - 1
      BY <1>1, <3>1, PopType
    <3> QED
      BY <3>1, <3>2
  <2>2. f \in Frames /\ Front(below) \in Seq(Frames)
    BY <2>1, PopType
  <2>3. Updated(r) \in {"read", "fetch"}
    BY DEF Updated
  <2>4. g \in Frames /\ f.path \in Paths
    <3> HIDE DEF f, r
    <3>1. f.path \in Paths
      BY <2>2 DEF Frames, FrameType
    <3>2. g \in Frames
      BY <2>2, <2>3, GotoOK
    <3> QED
      BY <3>1, <3>2
  <2>5. Front(below) \o <<g>> \in Seq(Frames)
    <3> HIDE DEF g, f, below
    <3> QED BY <2>2, <2>4, PushType
  <2>6. StackOK' /\ stack' \in [Threads -> Seq(FrameType)]
    <3>1. stack' = [stack EXCEPT ![t] = Front(below) \o <<g>>]
      BY <1>3 DEF ReturnToUpdate
    <3> HIDE DEF below, g
    <3>2. StackOK'
      BY <2>5, <3>1 DEF TypeInv, StackOK
    <3> QED
      BY <3>2, FrameStacks DEF StackOK
  <2>7. cache' \in [Handlers -> [Paths -> EntryType]]
    <3>1. CASE r.ok /\ r.code = 304 /\ r.directive # "other"
      <4>1. r.expiration # Forever
        BY <1>1, <3>1 DEF Frames
      <4>2. Entry(r.expiration, r.e_tag) \in EntryType
        BY <1>1, <4>1 DEF Entry, EntryType, ResponseType
      <4>3. cache' = [cache EXCEPT ![Handler(t)][f.path] = Entry(r.expiration, r.e_tag)]
        BY <1>3, <3>1 DEF ReturnToUpdate
      <4> HIDE DEF f, r
      <4> QED
        BY <2>4, <4>2, <4>3, HandlerType DEF TypeInv, TypeOK
    <3>2. CASE ~(r.ok /\ r.code = 304 /\ r.directive # "other")
      BY <1>3, <3>2 DEF ReturnToUpdate, TypeInv, TypeOK
    <3> QED
      BY <3>1, <3>2
  <2> QED
    BY <1>3, <2>6, <2>7 DEF ReturnToUpdate, TypeInv, TypeOK
<1> QED
  BY <1>2, <1>3

\* The ends of the process.
Ends(t) == StackOverflows(t) \/ FetchThrows(t) \/ OpenThrows(t) \/ UpdateThrows(t)

LEMMA EndsStep ==
  ASSUME MapRace \/ \E t \in Threads : Ends(t)
  PROVE  /\ terminated' = TRUE
         /\ UNCHANGED <<clock, changed, cache, disk, dirs, client, stack, reply, issued>>
BY DEF MapRace, Ends, StackOverflows, FetchThrows, OpenThrows, UpdateThrows

LEMMA OtherStepType ==
  ASSUME TypeInv,
         \/ Tick \/ MapRace
         \/ \E r \in Published : Publish(r)
         \/ \E t \in Threads : Arrive(t) \/ Ends(t)
  PROVE  TypeInv'
<1>1. CASE Tick \/ MapRace \/ \E t \in Threads : Ends(t)
  <2>1. clock' \in Nat /\ terminated' \in BOOLEAN
    <3>1. clock \in Nat /\ terminated \in BOOLEAN
      BY DEF TypeInv, TypeOK
    <3>2. clock' \in {clock, clock + 1}
      BY <1>1, EndsStep DEF Tick
    <3>3. terminated' = terminated \/ terminated' = TRUE
      BY <1>1, EndsStep DEF Tick
    <3>4. clock' \in Nat
      BY <3>1, <3>2
    <3>5. terminated' \in BOOLEAN
      BY <3>1, <3>3, Zenon
    <3> QED
      BY <3>4, <3>5
  <2>2. UNCHANGED <<changed, cache, disk, dirs, client, stack, reply, issued>>
    BY <1>1, EndsStep DEF Tick
  <2>3. TypeOK'
    BY <2>1, <2>2 DEF TypeInv, TypeOK
  <2> QED
    BY <2>2, <2>3 DEF TypeInv, StackOK
<1>2. CASE \E r \in Published : Publish(r)
  <2>1. PICK r \in Resources : Publish(r)
    BY <1>2 DEF Published
  <2>2. changed' \in [Resources -> Seq(Nat)]
    BY <2>1 DEF Publish, TypeInv, TypeOK
  <2> QED
    BY <2>1, <2>2 DEF Publish, TypeInv, TypeOK, StackOK
<1>3. CASE \E t \in Threads : Arrive(t)
  <2>1. PICK t \in Threads, h \in Handlers, uri \in Uris :
          /\ Arrive(t)
          /\ client' = [client EXCEPT ![t] = [h |-> h, uri |-> uri, arrived |-> clock]]
          /\ stack' = [stack EXCEPT ![t] = <<Frame(h, uri, NoTag)>>]
    BY <1>3 DEF Arrive
  <2>2. StackOK'
    <3>1. Frame(h, uri, NoTag) \in Frames
      BY FrameOK
    <3> QED
      BY <2>1, <3>1 DEF TypeInv, StackOK
  <2>3. stack' \in [Threads -> Seq(FrameType)]
    BY <2>2, FrameStacks DEF StackOK
  <2>4. reply' \in [Threads -> ResponseType]
    BY <2>1, NoResponseType DEF Arrive, TypeInv, TypeOK
  <2>5. client' \in [Threads -> [h: Handlers, uri: Uris, arrived: Nat]]
    BY <2>1 DEF TypeInv, TypeOK
  <2>6. issued' \in Nat
    BY <2>1 DEF Arrive, TypeInv, TypeOK
  <2> QED
    BY <2>1, <2>2, <2>3, <2>4, <2>5, <2>6 DEF Arrive, TypeInv, TypeOK
<1> QED
  BY <1>1, <1>2, <1>3

\* Every step keeps the types.
LEMMA NextType == TypeInv /\ [Next]_vars => TypeInv'
<1> SUFFICES ASSUME TypeInv, [Next]_vars PROVE TypeInv'
  OBVIOUS
<1>1. CASE UNCHANGED vars
  BY <1>1 DEF vars, TypeInv, TypeOK, StackOK
<1>2. CASE Next
  BY <1>2, FindType, CheckType, TakeTagType, EraseType, ReadType, FetchingType, StoringType,
     ReturnType, OtherStepType DEF Next, Handle, Ends
<1> QED
  BY <1>1, <1>2

\* The type invariant of the proxy, for any number of handlers, threads and
\* origins and any redirects (proxy_handler.cc).
THEOREM TypeCorrect == Spec => []TypeOK
<1>1. TypeInv => TypeOK
  BY DEF TypeInv
<1> QED
  BY <1>1, InitType, NextType, PTL DEF Spec

-----------------------------------------------------------------------------
(***************************************************************************)
(* Replies are right when requests that share a file are for what the same *)
(* redirects lead to: with one handler, when only one URI has a given key. *)
(* The invariant says of every frame that its target, and the body it      *)
(* holds, are what its own URI leads to, and of every file that its body   *)
(* is what some URI with this key leads to.                                *)
(***************************************************************************)
Serves(h, uri, r) == <<<<Origin[h], uri>>, r>> \in LeadsTo

NoAliases ==
  \A g, h \in Handlers, u, v \in Uris :
    PathOf(u) = PathOf(v) => \A r \in Resources : Serves(g, u, r) => Serves(h, v, r)

FrameRight(f, h) ==
  /\ f.path = PathOf(f.uri)
  /\ \A r \in Resources : <<f.target, r>> \in LeadsTo => Serves(h, f.uri, r)
  /\ f.response.body # NoBody => Serves(h, f.uri, f.response.body.of)

RightFrames(h) == {f \in FrameType : FrameRight(f, h)}

\* The stack of a request to h for uri.
StackRight(s, h, uri) ==
  /\ s \in Seq(RightFrames(h))
  /\ s # <<>> => s[1].uri = Strip(h, uri)

StacksRight == \A t \in Threads : StackRight(stack[t], Handler(t), client[t].uri)

DiskRight ==
  \A p \in Paths : disk[p].body # NoBody =>
    \E h \in Handlers, u \in Uris : PathOf(u) = p /\ Serves(h, u, disk[p].body.of)

BodiesRight ==
  \A t \in Threads : reply[t].body # NoBody => <<Asked(t), reply[t].body.of>> \in LeadsTo

RightInv == StacksRight /\ DiskRight /\ BodiesRight

\* What a resource answers itself it leads to.
LEMMA LeadsToSelf ==
  ASSUME NEW r \in Resources, r \notin DOMAIN Redirect
  PROVE  <<r, r>> \in LeadsTo
BY DEF LeadsTo

\* What a redirect's Location leads to, the redirect leads to (ParseLocation).
LEMMA LeadsToNext ==
  ASSUME NEW r \in Resources, r \in DOMAIN Redirect, NEW s,
         <<ParseLocation(r), s>> \in LeadsTo
  PROVE  <<r, s>> \in LeadsTo
<1>1. /\ s \in Resources \ DOMAIN Redirect
      /\ \A S \in SUBSET Resources : ParseLocation(r) \in S /\ GoesOn(S) => s \in S
  BY DEF LeadsTo
<1>2. ASSUME NEW S \in SUBSET Resources, r \in S, GoesOn(S)
      PROVE  ParseLocation(r) \in S
  <2> DEFINE o == IF Redirect[r].host = "same" THEN r[1] ELSE Redirect[r].host
  <2>1. o \in Origins
    BY RedirectAssumption, ResourceType
  <2>2. Redirect[r].host = o \/ (Redirect[r].host = "same" /\ r[1] = o)
    OBVIOUS
  <2> HIDE DEF o
  <2>3. <<o, Redirect[r].uri>> \in S
    BY <1>2, <2>1, <2>2 DEF GoesOn
  <2> QED
    BY <2>3 DEF ParseLocation, o
<1> QED
  BY <1>1, <1>2 DEF LeadsTo

\* A body is of a resource.
LEMMA BodyOf ==
  ASSUME NEW body \in BodyType, body # NoBody
  PROVE  body.of \in Resources
BY DEF BodyType

\* A new innermost frame for the same URI.
LEMMA NewTopRight ==
  ASSUME NEW h, NEW uri, NEW s, StackRight(s, h, uri), s # <<>>,
         NEW f \in RightFrames(h), f.uri = Last(s).uri
  PROVE  StackRight(Front(s) \o <<f>>, h, uri)
<1> DEFINE S == RightFrames(h)
<1>1. s \in Seq(S) /\ s[1].uri = Strip(h, uri)
  BY DEF StackRight
<1> HIDE DEF S
<1>2. Front(s) \in Seq(S) /\ Len(Front(s)) = Len(s) - 1 /\ f \in S
  BY <1>1, PopType DEF S
<1>3. Front(s) \o <<f>> \in Seq(S)
  BY <1>2
<1>4. CASE Len(s) = 1
  <2>1. (Front(s) \o <<f>>)[1] = f
    BY <1>2, <1>4
  <2>2. Last(s) = s[1]
    BY <1>4 DEF Last
  <2> QED
    BY <1>1, <1>3, <2>1, <2>2 DEF StackRight, S
<1>5. CASE Len(s) # 1
  <2>1. Len(s) \in Nat /\ Len(s) > 1
    <3>1. Len(s) \in Nat /\ Len(s) # 0
      BY <1>1
    <3>2. \A n \in Nat : n # 0 /\ n # 1 => n > 1
      OBVIOUS
    <3> QED
      BY <1>5, <3>1, <3>2, Zenon
  <2>2. Front(s)[1] = s[1]
    BY <1>1, <2>1 DEF Front
  <2>3. (Front(s) \o <<f>>)[1] = s[1]
    BY <1>2, <2>1, <2>2
  <2> QED
    BY <1>1, <1>3, <2>3 DEF StackRight, S
<1> QED
  BY <1>4, <1>5

\* The stack of one thread changes.
LEMMA OneStackRight ==
  ASSUME StacksRight, StackOK, NEW t \in Threads, NEW s,
         StackRight(s, Handler(t), client[t].uri),
         stack' = [stack EXCEPT ![t] = s], UNCHANGED client
  PROVE  StacksRight'
BY DEF StacksRight, StackOK, Handler

\* A step that changes the innermost frame and no file.
LEMMA TopStepRight ==
  ASSUME RightInv, TypeInv, NEW t \in Threads, stack[t] # <<>>,
         NEW f \in RightFrames(Handler(t)), f.uri = Top(t).uri, SetTop(t, f),
         UNCHANGED client
  PROVE  StacksRight'
<1>1. StackRight(stack[t], Handler(t), client[t].uri)
  BY DEF RightInv, StacksRight
<1>2. StackRight(Front(stack[t]) \o <<f>>, Handler(t), client[t].uri)
  BY <1>1, NewTopRight DEF Top
<1> QED
  BY <1>2, OneStackRight DEF SetTop, RightInv, TypeInv

LEMMA TopRight ==
  ASSUME RightInv, NEW t \in Threads, stack[t] # <<>>
  PROVE  Top(t) \in RightFrames(Handler(t))
BY TopType DEF RightInv, StacksRight, StackRight

\* A frame is as right at any other place in the code.
LEMMA GotoRight ==
  ASSUME RightInv, TypeInv, NEW t \in Threads, stack[t] # <<>>,
         NEW pc \in {"find", "check", "tag", "read", "updating", "fetch", "open", "write",
                     "enter", "return", "spin"}
  PROVE  /\ [Top(t) EXCEPT !.pc = pc] \in RightFrames(Handler(t))
         /\ [Top(t) EXCEPT !.pc = pc].uri = Top(t).uri
<1> DEFINE f == Top(t)
<1>1. f \in FrameType /\ FrameRight(f, Handler(t))
  BY TopRight DEF RightFrames
<1> HIDE DEF f
<1>2. [f EXCEPT !.pc = pc] \in FrameType /\ [f EXCEPT !.pc = pc].uri = f.uri
  BY <1>1 DEF FrameType
<1>3. FrameRight([f EXCEPT !.pc = pc], Handler(t))
  BY <1>1 DEF FrameRight, FrameType
<1> QED
  BY <1>2, <1>3 DEF RightFrames, f

\* Steps that change where a thread is, and neither a file nor a reply.
LEMMA GotoStepRight ==
  ASSUME RightInv, TypeInv, NEW t \in Threads, stack[t] # <<>>,
         NEW pc \in {"find", "check", "tag", "read", "fetch", "enter", "return", "spin"},
         Goto(t, pc), UNCHANGED <<client, disk, reply>>
  PROVE  RightInv'
<1>1. StacksRight'
  BY GotoRight, TopStepRight DEF Goto
<1>2. DiskRight' /\ BodiesRight'
  BY DEF RightInv, DiskRight, BodiesRight, Asked, Handler
<1> QED
  BY <1>1, <1>2 DEF RightInv

\* Steps that also set the response of the frame.
LEMMA ReturnStepRight ==
  ASSUME RightInv, TypeInv, NEW t \in Threads, stack[t] # <<>>,
         NEW pc \in {"open", "return"}, NEW r \in ResponseType,
         r.body # NoBody => Serves(Handler(t), Top(t).uri, r.body.of),
         SetTop(t, [Top(t) EXCEPT !.pc = pc, !.response = r]),
         UNCHANGED <<client, disk, reply>>
  PROVE  RightInv'
<1> DEFINE f == Top(t)
           g == [f EXCEPT !.pc = pc, !.response = r]
<1>1. f \in FrameType /\ FrameRight(f, Handler(t))
  BY TopRight DEF RightFrames
<1>2. SetTop(t, g)
  OBVIOUS
<1>3. r.body # NoBody => Serves(Handler(t), f.uri, r.body.of)
  OBVIOUS
<1> HIDE DEF f
<1>4. /\ g \in FrameType /\ g.uri = f.uri /\ g.path = f.path
      /\ g.target = f.target /\ g.response = r
  BY <1>1 DEF FrameType
<1> HIDE DEF g
<1>5. g \in RightFrames(Handler(t))
  BY <1>1, <1>3, <1>4 DEF RightFrames, FrameRight
<1>6. StacksRight'
  BY <1>2, <1>4, <1>5, TopStepRight DEF f
<1>7. DiskRight' /\ BodiesRight'
  BY DEF RightInv, DiskRight, BodiesRight, Asked, Handler
<1> QED
  BY <1>6, <1>7 DEF RightInv

LEMMA FindRight == ASSUME RightInv, TypeInv, NEW t \in Threads, Find(t) PROVE RightInv'
<1>1. stack[t] # <<>> /\ UNCHANGED <<client, disk, reply>>
  BY DEF Find, AtPc
<1>2. PICK pc \in {"check", "fetch"} : Goto(t, pc)
  BY DEF Find
<1> QED
  BY <1>1, <1>2, GotoStepRight

LEMMA CheckRight == ASSUME RightInv, TypeInv, NEW t \in Threads, Check(t) PROVE RightInv'
<1>1. stack[t] # <<>> /\ UNCHANGED <<client, disk, reply>>
  BY DEF Check, AtPc
<1>2. PICK pc \in {"tag", "read"} : Goto(t, pc)
  BY DEF Check
<1> QED
  BY <1>1, <1>2, GotoStepRight

LEMMA EraseRight == ASSUME RightInv, TypeInv, NEW t \in Threads, Erase(t) PROVE RightInv'
<1>1. stack[t] # <<>> /\ UNCHANGED <<client, disk, reply>> /\ Goto(t, "find")
  BY DEF Erase, AtPc
<1> QED
  BY <1>1, GotoStepRight

LEMMA TakeTagRight ==
  ASSUME RightInv, TypeInv, NEW t \in Threads, TakeTag(t)
  PROVE  RightInv'
<1> DEFINE h == Handler(t)
           f == Top(t)
           e == At(h, f.path)
           g == [f EXCEPT !.pc = "updating"]
           k == [Frame(h, f.uri, e.e_tag) EXCEPT !.pc = "erase"]
           s == Front(stack[t]) \o <<g>>
<1>1. stack[t] # <<>> /\ UNCHANGED <<client, disk, reply>>
  BY DEF TakeTag, AtPc
<1>2. f \in FrameType /\ h \in Handlers
  BY <1>1, TopRight, HandlerType DEF RightFrames, TypeInv
<1>3. f.uri \in Uris /\ f.path \in Paths
  BY <1>2 DEF FrameType
<1>4. e.e_tag \in Nat \cup {NoTag}
  BY <1>2, <1>3, EntryOK DEF TypeInv, EntryType
<1>5. k \in RightFrames(h)
  <2> DEFINE uri == f.uri
             tag == e.e_tag
  <2>1. /\ h \in Handlers /\ uri \in Uris /\ tag \in Nat \cup {NoTag}
        /\ k = [Frame(h, uri, tag) EXCEPT !.pc = "erase"]
    BY <1>2, <1>3, <1>4
  <2> HIDE DEF uri, tag, k, h
  <2>2. /\ k \in FrameType /\ k.uri = Strip(h, uri) /\ k.path = PathOf(k.uri)
        /\ k.target = <<Origin[h], k.uri>> /\ k.response.body = NoBody
    BY <2>1, UpdateOK, NoResponseType DEF Frames
  <2> QED
    BY <2>2 DEF RightFrames, FrameRight, Serves
<1>6. g \in RightFrames(h) /\ g.uri = f.uri
  BY <1>1, GotoRight
<1>7. StackRight(stack[t], h, client[t].uri)
  BY DEF RightInv, StacksRight
<1>8. StackRight(s, h, client[t].uri)
  <2> HIDE DEF g
  <2> QED BY <1>1, <1>6, <1>7, NewTopRight DEF Top
<1>9. s \o <<k>> = Front(stack[t]) \o <<g, k>>
  <2>1. Front(stack[t]) \in Seq(RightFrames(h))
    BY <1>1, <1>7, PopType DEF StackRight
  <2> HIDE DEF g, k
  <2> QED BY <1>5, <1>6, <2>1, PushTwo
<1>10. StackRight(s \o <<k>>, h, client[t].uri)
  <2>1. s \in Seq(RightFrames(h)) /\ s # <<>> /\ s[1].uri = Strip(h, client[t].uri)
    <3>1. s # <<>>
      <4>1. Front(stack[t]) \in Seq(RightFrames(h))
        BY <1>1, <1>7, PopType DEF StackRight
      <4> HIDE DEF g
      <4> QED BY <1>6, <4>1, PushType
    <3> QED
      BY <1>8, <3>1 DEF StackRight
  <2> HIDE DEF s, k
  <2> QED BY <1>5, <2>1, PushType DEF StackRight
<1>11. StacksRight'
  <2>1. stack' = [stack EXCEPT ![t] = s \o <<k>>]
    BY <1>9 DEF TakeTag
  <2> HIDE DEF s, k
  <2> QED BY <1>1, <1>10, <2>1, OneStackRight DEF RightInv, TypeInv
<1>12. DiskRight' /\ BodiesRight'
  BY <1>1 DEF RightInv, DiskRight, BodiesRight, Asked, Handler
<1> QED
  BY <1>11, <1>12 DEF RightInv

LEMMA ReadRight ==
  ASSUME NoAliases, RightInv, TypeInv, NEW t \in Threads, Read(t)
  PROVE  RightInv'
<1> DEFINE h == Handler(t)
           f == Top(t)
           file == disk[f.path]
           e == At(h, f.path)
           empty == [NoResponse EXCEPT !.ok = TRUE, !.whole = FALSE, !.source = "cache"]
           expiration == IF e.expiration = NotADateTime THEN Forever ELSE e.expiration
           stored ==
             [NoResponse EXCEPT
                !.ok = TRUE, !.code = file.code, !.body = file.body,
                !.whole = file.state = "whole", !.source = "cache",
                !.expiration = expiration]
<1>1. /\ stack[t] # <<>> /\ UNCHANGED <<client, disk, reply>>
      /\ f \in FrameType /\ FrameRight(f, h) /\ h \in Handlers
      /\ f.path \in Paths /\ f.uri \in Uris
  BY TopRight, HandlerType DEF Read, AtPc, TypeInv, RightFrames, FrameType
<1>2. CASE Goto(t, "spin")
  BY <1>1, <1>2, GotoStepRight
<1>3. CASE SetTop(t, [f EXCEPT !.pc = "return", !.response = empty])
  <2>1. empty \in ResponseType /\ empty.body = NoBody
    BY NoResponseType DEF NoResponse, ResponseType
  <2> HIDE DEF empty
  <2> QED
    BY <1>1, <1>3, <2>1, ReturnStepRight, Zenon
<1>4. CASE SetTop(t, [f EXCEPT !.pc = "return", !.response = stored])
  <2>1. /\ file.code \in {0} \cup Codes /\ file.body \in BodyType
        /\ (file.state = "whole") \in BOOLEAN
    BY <1>1 DEF TypeInv, TypeOK, FileType
  <2>2. expiration \in Nat \cup {NotADateTime, Forever}
    <3>1. e.expiration \in Nat \cup {NotADateTime}
      BY <1>1, EntryOK DEF TypeInv, EntryType
    <3> QED
      BY <3>1
  <2>3. stored \in ResponseType /\ stored.body = file.body
    <3> DEFINE code == file.code
               body == file.body
               whole == file.state = "whole"
    <3>1. stored = [NoResponse EXCEPT !.ok = TRUE, !.code = code, !.body = body,
                      !.whole = whole, !.source = "cache", !.expiration = expiration]
      OBVIOUS
    <3>2. code \in {0} \cup Codes /\ body \in BodyType /\ whole \in BOOLEAN /\ body = file.body
      BY <2>1
    <3> HIDE DEF stored, code, body, whole, expiration
    <3>3. stored = FromFile(code, body, whole, expiration)
      BY <3>1 DEF FromFile, NoResponse
    <3> QED
      BY <2>2, <3>2, <3>3, FromFileType
  <2>4. ASSUME file.body # NoBody PROVE Serves(h, f.uri, file.body.of)
    <3>1. PICK g \in Handlers, u \in Uris : PathOf(u) = f.path /\ Serves(g, u, file.body.of)
      BY <1>1, <2>4 DEF RightInv, DiskRight
    <3>2. PathOf(u) = PathOf(f.uri) /\ file.body.of \in Resources
      BY <1>1, <2>1, <2>4, <3>1, BodyOf DEF FrameRight
    <3> QED
      BY <1>1, <3>1, <3>2 DEF NoAliases
  <2>5. stored.body # NoBody => Serves(h, f.uri, stored.body.of)
    BY <2>3, <2>4
  <2> HIDE DEF stored
  <2> QED
    BY <1>1, <1>4, <2>3, <2>5, ReturnStepRight, Zenon
<1> QED
  BY <1>2, <1>3, <1>4 DEF Read

LEMMA FetchingRight ==
  ASSUME RightInv, TypeInv, NEW t \in Threads, FollowRedirect(t) \/ FetchFails(t) \/ Fetch(t)
  PROVE  RightInv'
<1> DEFINE h == Handler(t)
           f == Top(t)
           v == Version(f.target)
           body == [of |-> f.target, ver |-> v]
<1>1. /\ stack[t] # <<>> /\ UNCHANGED <<client, disk, reply>>
      /\ f \in FrameType /\ FrameRight(f, h) /\ f.target \in Resources
  BY TopRight DEF FollowRedirect, FetchFails, Fetch, AtPc, RightFrames, FrameType
<1>2. v \in Nat /\ body \in BodyType /\ clock \in Nat
  BY <1>1 DEF Version, BodyType, TypeInv, TypeOK
<1>3. CASE FollowRedirect(t)
  <2> DEFINE r == ParseLocation(f.target)
             g == [f EXCEPT !.target = r]
  <2>1. r \in Resources /\ f.target \in DOMAIN Redirect /\ SetTop(t, g)
    BY <1>1, <1>3, ParseLocationType DEF FollowRedirect
  <2>2. \A s \in Resources : <<r, s>> \in LeadsTo => Serves(h, f.uri, s)
    BY <1>1, <2>1, LeadsToNext DEF FrameRight
  <2> HIDE DEF r, f
  <2>3. /\ g \in FrameType /\ g.uri = f.uri /\ g.path = f.path
        /\ g.target = r /\ g.response = f.response
    BY <1>1, <2>1 DEF FrameType
  <2> HIDE DEF g
  <2>4. g \in RightFrames(h)
    BY <1>1, <2>2, <2>3 DEF RightFrames, FrameRight
  <2>5. StacksRight'
    BY <1>1, <2>1, <2>3, <2>4, TopStepRight DEF f
  <2>6. DiskRight' /\ BodiesRight'
    BY <1>1 DEF RightInv, DiskRight, BodiesRight, Asked, Handler
  <2> QED
    BY <2>5, <2>6 DEF RightInv
<1>4. CASE FetchFails(t)
  BY <1>1, <1>4, NoResponseType, ReturnStepRight DEF FetchFails
<1>5. CASE Fetch(t)
  <2>1. NoBody \in BodyType /\ v \in Nat \cup {NoTag} /\ NoTag \in Nat \cup {NoTag}
    BY <1>2 DEF BodyType
  <2>2. ASSUME NEW d \in Revalidation, NEW tag \in Nat \cup {NoTag},
               SetTop(t, [f EXCEPT !.pc = "return", !.response = Received(304, NoBody, d, tag)])
        PROVE  RightInv'
    <3> DEFINE r == Received(304, NoBody, d, tag)
    <3>1. r \in ResponseType /\ r.body = NoBody
      BY <1>2, <2>1, RevalidationAssumption, ReceivedType
    <3>2. SetTop(t, [f EXCEPT !.pc = "return", !.response = r])
      BY <2>2
    <3> HIDE DEF r
    <3> QED
      BY <1>1, <3>1, <3>2, ReturnStepRight, Zenon
  <2>3. ASSUME NEW code \in Codes, NEW d \in CacheControl[f.target[2]],
               NEW tag \in Nat \cup {NoTag}, NEW pc \in {"open", "return"},
               SetTop(t, [f EXCEPT !.pc = pc, !.response = Received(code, body, d, tag)])
        PROVE  RightInv'
    <3> DEFINE r == Received(code, body, d, tag)
    <3>1. d \in Directive
      BY <1>1, ResourceType, CacheControlAssumption
    <3>2. r \in ResponseType /\ r.body = body
      <4> HIDE DEF body
      <4> QED BY <1>2, <3>1, ReceivedType
    <3>3. Serves(h, f.uri, f.target)
      <4>1. f.target \notin DOMAIN Redirect
        BY <1>5 DEF Fetch
      <4> QED
        BY <1>1, <4>1, LeadsToSelf DEF FrameRight
    <3>4. r.body # NoBody => Serves(h, f.uri, r.body.of)
      BY <3>2, <3>3
    <3>5. SetTop(t, [f EXCEPT !.pc = pc, !.response = r])
      BY <2>3
    <3> HIDE DEF r
    <3> QED
      BY <1>1, <3>2, <3>4, <3>5, ReturnStepRight, Zenon
  <2>4. CASE \E d \in Revalidation :
               SetTop(t, [f EXCEPT !.pc = "return",
                 !.response = Received(304, NoBody, d, IF TagHeader = "Etag" THEN v ELSE NoTag)])
    <3> DEFINE tag == IF TagHeader = "Etag" THEN v ELSE NoTag
    <3>1. PICK d \in Revalidation :
            SetTop(t, [f EXCEPT !.pc = "return", !.response = Received(304, NoBody, d, tag)])
      BY <2>4
    <3>2. tag \in Nat \cup {NoTag}
      BY <2>1
    <3> HIDE DEF tag, f
    <3> QED
      BY <2>2, <3>1, <3>2
  <2>5. CASE \E code \in Codes, d \in CacheControl[f.target[2]] :
               SetTop(t, [f EXCEPT !.pc = IF d = "max-age" THEN "open" ELSE "return",
                 !.response = Received(code, body, d, IF TagHeader = "ETag" THEN v ELSE NoTag)])
    <3>1. (IF TagHeader = "ETag" THEN v ELSE NoTag) \in Nat \cup {NoTag}
      BY <2>1
    <3>2. \A d : (IF d = "max-age" THEN "open" ELSE "return") \in {"open", "return"}
      OBVIOUS
    <3> QED
      BY <2>3, <2>5, <3>1, <3>2, Zenon
  <2> QED
    BY <1>5, <2>4, <2>5, Zenon DEF Fetch
<1> QED
  BY <1>3, <1>4, <1>5

LEMMA StoringRight ==
  ASSUME RightInv, TypeInv, NEW t \in Threads, Open(t) \/ Write(t) \/ Enter(t)
  PROVE  RightInv'
<1> DEFINE h == Handler(t)
           f == Top(t)
<1>1. /\ stack[t] # <<>> /\ UNCHANGED <<client, reply>> /\ h \in Handlers
      /\ FrameRight(f, h) /\ f.path \in Paths /\ f.uri \in Uris
  BY TopRight, HandlerType
     DEF Open, Write, Enter, AtPc, TypeInv, RightFrames, FrameType
<1>2. BodiesRight'
  BY <1>1 DEF RightInv, BodiesRight, Asked, Handler
<1>3. PICK pc \in {"write", "enter", "return"} : Goto(t, pc)
  BY DEF Open, Write, Enter
<1>4. StacksRight'
  BY <1>1, <1>3, GotoRight, TopStepRight DEF Goto
<1>5. CASE UNCHANGED disk
  BY <1>2, <1>4, <1>5 DEF RightInv, DiskRight
<1>6. CASE Open(t)
  <2>1. \A p \in Paths : disk'[p] = disk[p] \/ disk'[p].body = NoBody
    BY <1>6 DEF Open, TypeInv, TypeOK, NoFile
  <2>2. DiskRight'
    BY <2>1 DEF RightInv, DiskRight
  <2> QED
    BY <1>2, <1>4, <2>2 DEF RightInv
<1>7. CASE Write(t)
  <2>1. \A p \in Paths :
          disk'[p] = disk[p] \/ (p = f.path /\ disk'[p].body = f.response.body)
    BY <1>7 DEF Write, TypeInv, TypeOK
  <2>2. f.response.body # NoBody =>
          PathOf(f.uri) = f.path /\ Serves(h, f.uri, f.response.body.of)
    BY <1>1 DEF FrameRight
  <2>3. DiskRight'
    <3> HIDE DEF f, h
    <3> QED
      BY <1>1, <2>1, <2>2 DEF RightInv, DiskRight
  <2> QED
    BY <1>2, <1>4, <2>3 DEF RightInv
<1>8. CASE Enter(t)
  BY <1>5, <1>8 DEF Enter
<1> QED
  BY <1>6, <1>7, <1>8

LEMMA ReturnToClientRight ==
  ASSUME RightInv, TypeInv, NEW t \in Threads, ReturnToClient(t)
  PROVE  RightInv'
<1> DEFINE h == Handler(t)
           f == Top(t)
<1>1. /\ stack[t] # <<>> /\ Len(stack[t]) = 1 /\ UNCHANGED <<client, disk>>
      /\ FrameRight(f, h)
  BY TopRight DEF ReturnToClient, AtPc, RightFrames
<1>2. f.uri = Strip(h, client[t].uri)
  BY <1>1 DEF RightInv, StacksRight, StackRight, Top, Last
<1>3. f.response.body # NoBody => <<Asked(t), f.response.body.of>> \in LeadsTo
  BY <1>1, <1>2 DEF FrameRight, Serves, Asked, Target
<1>4. BodiesRight'
  <2>1. \A u \in Threads : reply'[u] = reply[u] \/ (u = t /\ reply'[u] = f.response)
    BY DEF ReturnToClient, TypeInv, TypeOK
  <2> QED
    BY <1>1, <1>3, <2>1 DEF RightInv, BodiesRight, Asked, Handler
<1>5. StacksRight'
  <2>1. StackRight(<<>>, h, client[t].uri)
    BY DEF StackRight
  <2> QED
    BY <1>1, <2>1, OneStackRight DEF ReturnToClient, RightInv, TypeInv
<1>6. DiskRight'
  BY <1>1 DEF RightInv, DiskRight
<1> QED
  BY <1>4, <1>5, <1>6 DEF RightInv

LEMMA ReturnToUpdateRight ==
  ASSUME RightInv, TypeInv, NEW t \in Threads, ReturnToUpdate(t)
  PROVE  RightInv'
<1> DEFINE h == Handler(t)
           s == Front(stack[t])
           f == Last(s)
           pc == Updated(Top(t).response)
           g == [f EXCEPT !.pc = pc]
<1>1. UNCHANGED <<client, disk, reply>> /\ stack' = [stack EXCEPT ![t] = Front(s) \o <<g>>]
  BY DEF ReturnToUpdate
<1>2. stack[t] \in Seq(RightFrames(h)) /\ stack[t][1].uri = Strip(h, client[t].uri)
      /\ Len(stack[t]) > 1
  BY DEF ReturnToUpdate, Processing, AtPc, RightInv, StacksRight, StackRight
<1>3. s \in Seq(RightFrames(h)) /\ s # <<>> /\ s[1] = stack[t][1]
  <2>1. stack[t] # <<>> /\ 1 \in 1..(Len(stack[t]) - 1)
    BY <1>2
  <2>2. s \in Seq(RightFrames(h)) /\ Len(s) = Len(stack[t]) - 1 /\ s[1] = stack[t][1]
    BY <1>2, <2>1, PopType
  <2> QED
    BY <1>2, <2>2
<1>4. StackRight(s, h, client[t].uri)
  BY <1>2, <1>3 DEF StackRight
<1>5. f \in FrameType /\ FrameRight(f, h)
  <2>1. f \in RightFrames(h)
    <3> HIDE DEF s, h
    <3> QED BY <1>3, PopType
  <2> QED
    BY <2>1 DEF RightFrames
<1>6. pc \in {"read", "fetch"}
  BY DEF Updated
<1> HIDE DEF f, pc
<1>7. g \in RightFrames(h) /\ g.uri = f.uri
  BY <1>5, <1>6 DEF RightFrames, FrameRight, FrameType
<1> HIDE DEF g
<1>8. StackRight(Front(s) \o <<g>>, h, client[t].uri)
  BY <1>3, <1>4, <1>7, NewTopRight DEF f
<1>9. StacksRight'
  BY <1>1, <1>8, OneStackRight DEF RightInv, TypeInv
<1>10. DiskRight' /\ BodiesRight'
  BY <1>1 DEF RightInv, DiskRight, BodiesRight, Asked, Handler
<1> QED
  BY <1>9, <1>10 DEF RightInv

LEMMA ArriveRight ==
  ASSUME RightInv, TypeInv, NEW t \in Threads, Arrive(t)
  PROVE  RightInv'
<1>1. PICK h \in Handlers, uri \in Uris :
        /\ client' = [client EXCEPT ![t] = [h |-> h, uri |-> uri, arrived |-> clock]]
        /\ stack' = [stack EXCEPT ![t] = <<Frame(h, uri, NoTag)>>]
  BY DEF Arrive
<1>2. reply' = [reply EXCEPT ![t] = NoResponse] /\ UNCHANGED disk
  BY DEF Arrive
<1> DEFINE k == Frame(h, uri, NoTag)
<1>3. /\ k \in FrameType /\ k.uri = Strip(h, uri) /\ k.path = PathOf(k.uri)
      /\ k.target = <<Origin[h], k.uri>> /\ k.response = NoResponse
  BY FrameOK DEF Frames
<1> HIDE DEF k
<1>4. k \in RightFrames(h)
  BY <1>3, NoResponseType DEF RightFrames, FrameRight, Serves
<1>5. StackRight(<<k>>, h, uri)
  BY <1>3, <1>4 DEF StackRight
<1>6. /\ \A u \in Threads \ {t} : client'[u] = client[u] /\ stack'[u] = stack[u]
      /\ stack'[t] = <<k>> /\ client'[t].h = h /\ client'[t].uri = uri
  BY <1>1 DEF TypeInv, TypeOK, k
<1>7. StacksRight'
  BY <1>5, <1>6 DEF RightInv, StacksRight, Handler
<1>8. BodiesRight'
  <2>1. reply'[t].body = NoBody /\ \A u \in Threads \ {t} : reply'[u] = reply[u]
    BY <1>2, NoResponseType DEF TypeInv, TypeOK
  <2> QED
    BY <1>6, <2>1 DEF RightInv, BodiesRight, Asked, Handler
<1>9. DiskRight'
  BY <1>2 DEF RightInv, DiskRight
<1> QED
  BY <1>7, <1>8, <1>9 DEF RightInv

\* A step that is none of a frame's.
LEMMA StillRight ==
  ASSUME RightInv, UNCHANGED <<client, stack, disk, reply>>
  PROVE  RightInv'
BY DEF RightInv, StacksRight, DiskRight, BodiesRight, Asked, Handler

LEMMA InitRight == Init => RightInv
<1> SUFFICES ASSUME Init PROVE RightInv
  OBVIOUS
<1>1. StacksRight
  BY DEF Init, StacksRight, StackRight
<1>2. DiskRight
  BY DEF Init, DiskRight, NoFile
<1>3. BodiesRight
  BY NoResponseType DEF Init, BodiesRight
<1> QED
  BY <1>1, <1>2, <1>3 DEF RightInv

LEMMA NextRight == NoAliases /\ TypeInv /\ RightInv /\ [Next]_vars => RightInv'
<1> SUFFICES ASSUME NoAliases, TypeInv, RightInv, [Next]_vars PROVE RightInv'
  OBVIOUS
<1>1. CASE UNCHANGED vars
  BY <1>1, StillRight DEF vars
<1>2. CASE Next
  <2>1. CASE \/ Tick \/ MapRace
             \/ \E r \in Published : Publish(r)
             \/ \E t \in Threads : Ends(t)
    BY <2>1, EndsStep, StillRight DEF Tick, Publish
  <2>2. ASSUME NEW t \in Threads, Arrive(t) \/ (Handle(t) /\ ~Ends(t)) PROVE RightInv'
    BY <2>2, ArriveRight, FindRight, CheckRight, TakeTagRight, EraseRight, ReadRight,
       FetchingRight, StoringRight, ReturnToClientRight, ReturnToUpdateRight DEF Handle, Ends
  <2> QED
    BY <1>2, <2>1, <2>2 DEF Next, Handle
<1> QED
  BY <1>1, <1>2

\* While no two requests that share a file are for different things, the body
\* of a reply is one of the resource asked for, or of what redirects lead to from
\* it, whatever the threads do to the map and the files (HandleCache, MakeCache).
THEOREM RightReplies ==
  ASSUME NoAliases
  PROVE  Spec => []RepliesRight
<1>1. RightInv => RepliesRight
  BY DEF RightInv, BodiesRight, RepliesRight
<1>2. Init => TypeInv /\ RightInv
  BY InitType, InitRight
<1>3. TypeInv /\ RightInv /\ [Next]_vars => (TypeInv /\ RightInv)'
  BY NextType, NextRight
<1> QED
  BY <1>1, <1>2, <1>3, PTL DEF Spec

\* That is so for one handler when no two URIs have one key, such as "/" and
\* "/index" (PathOf, proxy_handler.cc:248-253).
COROLLARY OneHandlerRight ==
  ASSUME \A g, h \in Handlers : g = h,
         \A u, v \in Uris : PathOf(u) = PathOf(v) => u = v
  PROVE  Spec => []RepliesRight
<1>1. NoAliases
  BY DEF NoAliases
<1> QED
  BY <1>1, RightReplies

-----------------------------------------------------------------------------
(***************************************************************************)
(* The files of one thread.  A file is empty only between Open and Write,  *)
(* when the thread is nowhere near a Read, and never of two responses.     *)
(* That a file is whole when it is read is what freshness rests on.        *)
(***************************************************************************)
OneThread == \A t, u \in Threads : t = u
OneHandler == \A g, h \in Handlers : g = h

\* t has opened the file of p and not yet written it.
Writing(t, p) == AtPc(t, "write") /\ Top(t).path = p

FilesWhole ==
  \A p \in Paths :
    /\ disk[p].state \in {"none", "empty", "whole"}
    /\ disk[p].state = "whole" => disk[p].body # NoBody
    /\ disk[p].state = "empty" <=> \E t \in Threads : Writing(t, p)

WholeFrames ==
  {f \in Frames : /\ f.response.whole
                  /\ f.pc \in Storing => f.response.body # NoBody}

WholeInv ==
  /\ FilesWhole
  /\ \A t \in Threads : stack[t] \in Seq(WholeFrames) /\ reply[t].whole

\* The innermost frame after SetTop, and those below it.
LEMMA LastPush ==
  ASSUME NEW S, NEW s \in Seq(S), NEW x \in S
  PROVE  /\ Last(s \o <<x>>) = x
         /\ Front(s \o <<x>>) = s
         /\ Len(s \o <<x>>) = Len(s) + 1
         /\ \A i \in 1..Len(s) : (s \o <<x>>)[i] = s[i]
<1>1. s \o <<x>> = Append(s, x)
  OBVIOUS
<1>2. /\ Len(Append(s, x)) = Len(s) + 1
      /\ Append(s, x)[Len(s) + 1] = x
      /\ \A i \in 1..Len(s) : Append(s, x)[i] = s[i]
  OBVIOUS
<1>3. Len(Append(s, x)) - 1 = Len(s) /\ Len(s) \in Nat
  BY <1>2
<1>4. Front(Append(s, x)) = [i \in 1..Len(s) |-> Append(s, x)[i]]
  BY <1>3 DEF Front
<1>5. s = [i \in 1..Len(s) |-> s[i]]
  OBVIOUS
<1>6. Front(Append(s, x)) = s
  BY <1>2, <1>4, <1>5
<1> QED
  BY <1>1, <1>2, <1>6 DEF Last

LEMMA SetTopTop ==
  ASSUME NEW S, NEW t \in Threads, NEW f \in S,
         stack = [u \in Threads |-> stack[u]],
         stack[t] \in Seq(S), stack[t] # <<>>, SetTop(t, f)
  PROVE  /\ stack'[t] = Front(stack[t]) \o <<f>>
         /\ stack'[t] \in Seq(S) /\ stack'[t] # <<>>
         /\ Last(stack'[t]) = f
         /\ Len(stack'[t]) = Len(stack[t])
         /\ \A i \in 1..(Len(stack[t]) - 1) : stack'[t][i] = stack[t][i]
<1> DEFINE s == stack[t]
           u == Front(s)
<1>1. stack'[t] = u \o <<f>>
  BY DEF SetTop
<1>2. u \in Seq(S) /\ Len(u) = Len(s) - 1 /\ \A i \in 1..(Len(s) - 1) : u[i] = s[i]
  BY PopType
<1>3. Len(s) \in Nat /\ Len(u) \in Nat
  BY <1>2
<1> HIDE DEF u
<1>4. /\ Last(u \o <<f>>) = f /\ Len(u \o <<f>>) = Len(u) + 1
      /\ \A i \in 1..Len(u) : (u \o <<f>>)[i] = u[i]
      /\ u \o <<f>> \in Seq(S) /\ u \o <<f>> # <<>>
  BY <1>2, LastPush, PushType
<1> QED
  BY <1>1, <1>2, <1>3, <1>4 DEF u

\* A step that opens and writes no file, before or after.
LEMMA WholeStep ==
  ASSUME OneThread, WholeInv, NEW t \in Threads, UNCHANGED disk,
         stack'[t] \in Seq(WholeFrames), reply'[t].whole,
         ~AtPc(t, "write"), ~AtPc(t, "write")'
  PROVE  WholeInv'
<1>1. \A u \in Threads : u = t
  BY DEF OneThread
<1>2. \A p \in Paths, u \in Threads : ~Writing(u, p) /\ ~Writing(u, p)'
  BY <1>1 DEF Writing
<1>3. FilesWhole'
  BY <1>2 DEF WholeInv, FilesWhole
<1> QED
  BY <1>1, <1>3 DEF WholeInv

LEMMA WholeSetTop ==
  ASSUME OneThread, TypeInv, WholeInv, NEW t \in Threads, stack[t] # <<>>,
         Top(t).pc # "write", NEW f \in WholeFrames, f.pc # "write", SetTop(t, f),
         UNCHANGED <<disk, reply>>
  PROVE  WholeInv'
<1>1. stack'[t] \in Seq(WholeFrames) /\ Last(stack'[t]) = f
  BY SetTopTop DEF WholeInv, TypeInv, TypeOK
<1>2. reply'[t].whole
  BY DEF WholeInv
<1> QED
  BY <1>1, <1>2, WholeStep DEF AtPc, Top

LEMMA WholeTop ==
  ASSUME WholeInv, NEW t \in Threads, stack[t] # <<>>
  PROVE  Top(t) \in WholeFrames /\ Top(t) \in Frames
BY TopType DEF WholeInv, WholeFrames

LEMMA WholeGoto ==
  ASSUME OneThread, TypeInv, WholeInv, NEW t \in Threads, stack[t] # <<>>,
         Top(t).pc # "write", UNCHANGED <<disk, reply>>,
         NEW pc, Goto(t, pc),
         \/ pc \in {"find", "check", "tag", "read", "updating", "fetch", "return", "spin"}
         \/ pc = "enter" /\ Top(t).pc \in Storing
  PROVE  WholeInv'
<1> DEFINE f == Top(t)
           g == [f EXCEPT !.pc = pc]
<1>1. f \in WholeFrames /\ f \in Frames
  BY WholeTop
<1> HIDE DEF f
<1>2. g \in Frames
  BY <1>1, GotoOK, StoringOK DEF f
<1>3. g.pc = pc /\ g.response = f.response
  BY <1>1 DEF Frames, FrameType
<1>4. SetTop(t, g)
  BY DEF Goto, f
<1> HIDE DEF g
<1>5. g \in WholeFrames
  BY <1>1, <1>2, <1>3 DEF WholeFrames, Storing, f
<1> QED
  BY <1>3, <1>4, <1>5, WholeSetTop DEF f

\* Steps that set the response of the frame.
LEMMA WholeReturn ==
  ASSUME OneThread, TypeInv, WholeInv, NEW t \in Threads, stack[t] # <<>>,
         Top(t).pc # "write", NEW pc \in {"open", "return"}, NEW r \in ResponseType,
         r.whole, r.expiration # Forever \/ (pc = "return" /\ r.code # 304),
         pc = "open" => r.code \in Codes /\ r.body # NoBody,
         SetTop(t, [Top(t) EXCEPT !.pc = pc, !.response = r]), UNCHANGED <<disk, reply>>
  PROVE  WholeInv'
<1> DEFINE f == Top(t)
           g == [f EXCEPT !.pc = pc, !.response = r]
<1>1. f \in Frames
  BY WholeTop
<1> HIDE DEF f
<1>2. g \in Frames
  BY <1>1, ReturnOK, StoreOK
<1>3. g.pc = pc /\ g.response = r
  BY <1>1 DEF Frames, FrameType
<1>4. SetTop(t, g)
  BY DEF f
<1> HIDE DEF g
<1>5. g \in WholeFrames
  BY <1>2, <1>3 DEF WholeFrames, Storing
<1> QED
  BY <1>3, <1>4, <1>5, WholeSetTop

\* What Read does to a stack, when it does not stand still.
LEMMA ReadStored ==
  ASSUME TypeInv, NEW t \in Threads, Read(t), Readable(Top(t).path),
         disk[Top(t).path].state # "empty"
  PROVE  \E x \in Nat \cup {NotADateTime, Forever} :
           LET f == Top(t)
               file == disk[f.path]
               e == At(Handler(t), f.path)
               r == FromFile(file.code, file.body, file.state = "whole", x)
           IN  /\ x = IF e.expiration = NotADateTime THEN Forever ELSE e.expiration
               /\ r \in ResponseType /\ r.code # 304
               /\ SetTop(t, [f EXCEPT !.pc = "return", !.response = r])
               /\ cache' = [cache EXCEPT ![Handler(t)][f.path] = e]
<1> DEFINE f == Top(t)
           file == disk[f.path]
           e == At(Handler(t), f.path)
           x == IF e.expiration = NotADateTime THEN Forever ELSE e.expiration
           r == FromFile(file.code, file.body, file.state = "whole", x)
<1>1. f \in Frames /\ f.path \in Paths /\ Handler(t) \in Handlers
  BY TopOK, HandlerType DEF Read, AtPc, TypeInv, Frames, FrameType
<1>2. e \in EntryType /\ file \in FileType
  BY <1>1, EntryOK DEF TypeInv, TypeOK
<1>3. e.expiration \in Nat \cup {NotADateTime}
  BY <1>2 DEF EntryType
<1>4. x \in Nat \cup {NotADateTime, Forever}
  BY <1>3
<1>5. /\ cache' = [cache EXCEPT ![Handler(t)][f.path] = e]
      /\ SetTop(t, [f EXCEPT !.pc = "return",
           !.response = [NoResponse EXCEPT
                           !.ok = TRUE, !.code = file.code, !.body = file.body,
                           !.whole = file.state = "whole", !.source = "cache",
                           !.expiration = x]])
  BY DEF Read
<1>6. SetTop(t, [f EXCEPT !.pc = "return", !.response = r])
  <2> DEFINE whole == file.state = "whole"
             stored == [NoResponse EXCEPT
                          !.ok = TRUE, !.code = file.code, !.body = file.body, !.whole = whole,
                          !.source = "cache", !.expiration = x]
  <2>1. SetTop(t, [f EXCEPT !.pc = "return", !.response = stored])
    BY <1>5
  <2>2. stored = FromFile(file.code, file.body, whole, x)
    <3> DEFINE code == file.code
               body == file.body
    <3>1. stored = [NoResponse EXCEPT !.ok = TRUE, !.code = code, !.body = body,
                      !.whole = whole, !.source = "cache", !.expiration = x]
      OBVIOUS
    <3>2. code \in {0} \cup Codes /\ body \in BodyType /\ whole \in BOOLEAN
      BY <1>2 DEF FileType
    <3> HIDE DEF stored, x, code, body, whole
    <3>3. stored = FromFile(code, body, whole, x)
      BY <3>1, <3>2 DEF FromFile, NoResponse
    <3> QED BY <3>3 DEF code, body
  <2> HIDE DEF stored
  <2> QED BY <2>1, <2>2
<1>7. r \in ResponseType /\ r.code # 304
  <2> DEFINE whole == file.state = "whole"
             code == file.code
             body == file.body
  <2>1. code \in {0} \cup Codes /\ body \in BodyType /\ whole \in BOOLEAN
    BY <1>2 DEF FileType
  <2>3. r = FromFile(code, body, whole, x)
    OBVIOUS
  <2> HIDE DEF x, r, whole, code, body
  <2>2. r \in ResponseType /\ r.code = code
    BY <1>4, <2>1, <2>3, FromFileType
  <2> QED
    BY <2>1, <2>2, CodesAssumption
<1> HIDE DEF x, r
<1> QED
  BY <1>4, <1>5, <1>6, <1>7 DEF x, r

LEMMA ReadWhole ==
  ASSUME OneThread, TypeInv, WholeInv, NEW t \in Threads, Read(t) PROVE WholeInv'
<1> DEFINE f == Top(t)
           file == disk[f.path]
<1>1. stack[t] # <<>> /\ f.pc = "read" /\ UNCHANGED <<disk, reply>> /\ f.path \in Paths
  BY TopOK DEF Read, AtPc, TypeInv, Frames, FrameType
<1>2. file.state \in {"none", "whole"}
  BY <1>1 DEF WholeInv, FilesWhole, Writing, AtPc, OneThread
<1>3. CASE ~Readable(f.path)
  BY <1>1, <1>3, WholeGoto DEF Read
<1>4. CASE Readable(f.path)
  <2>1. file.state = "whole"
    BY <1>2, <1>4 DEF Readable
  <2>2. PICK x : LET r == FromFile(file.code, file.body, file.state = "whole", x)
                 IN  /\ r \in ResponseType /\ r.code # 304
                     /\ SetTop(t, [f EXCEPT !.pc = "return", !.response = r])
    BY <1>4, <2>1, ReadStored
  <2> DEFINE r == FromFile(file.code, file.body, file.state = "whole", x)
  <2>3. r.whole
    BY <2>1 DEF FromFile
  <2> HIDE DEF r
  <2>4. r \in ResponseType /\ r.code # 304
        /\ SetTop(t, [Top(t) EXCEPT !.pc = "return", !.response = r])
    BY <2>2 DEF r
  <2> QED
    BY <1>1, <2>3, <2>4, WholeReturn
<1> QED
  BY <1>3, <1>4

\* What Fetch may do to a stack: the answer of f's target is 304 or a version.
FetchedAs(t, tag, code, d, pc, body) ==
  LET f == Top(t)
      r == Received(code, body, d, tag)
  IN  /\ r \in ResponseType /\ r.whole /\ r.expiration # Forever
      /\ pc = "open" <=> code # 304 /\ d = "max-age"
      /\ code = 304 => /\ body = NoBody /\ d \in Revalidation
                       /\ f.if_none_match = Version(f.target)
      /\ code # 304 => /\ body = [of |-> f.target, ver |-> Version(f.target)]
                       /\ d \in CacheControl[f.target[2]]
      /\ SetTop(t, [f EXCEPT !.pc = pc, !.response = r])

LEMMA FetchCases ==
  ASSUME TypeInv, NEW t \in Threads, Fetch(t)
  PROVE  \E tag \in {NoTag, Version(Top(t).target)}, code \in Codes \cup {304},
            d \in Directive, pc \in {"open", "return"}, body \in BodyType :
           FetchedAs(t, tag, code, d, pc, body)
<1> DEFINE f == Top(t)
           v == Version(f.target)
           new == [of |-> f.target, ver |-> v]
<1>1. f \in Frames /\ f.target \in Resources /\ clock \in Nat
  BY TopOK DEF Fetch, AtPc, TypeInv, TypeOK, Frames, FrameType
<1>2. v \in Nat /\ new \in BodyType /\ NoBody \in BodyType
  BY <1>1 DEF Version, BodyType, TypeInv, TypeOK
<1>3. 304 \notin Codes
  BY CodesAssumption
<1>4. ASSUME NEW code \in Codes \cup {304}, NEW d \in Directive, NEW body \in BodyType,
             NEW tag \in {NoTag, v}
      PROVE  LET r == Received(code, body, d, tag)
             IN  r \in ResponseType /\ r.whole /\ r.expiration # Forever
  <2>1. tag \in Nat \cup {NoTag}
    BY <1>2, <1>4
  <2>2. Received(code, body, d, tag).whole
    BY DEF Received, NoResponse
  <2> QED
    BY <1>1, <1>4, <2>1, <2>2, ReceivedType
<1>5. CASE /\ f.if_none_match = v
           /\ \E d \in Revalidation :
                SetTop(t, [f EXCEPT !.pc = "return",
                  !.response = Received(304, NoBody, d, IF TagHeader = "Etag" THEN v ELSE NoTag)])
  <2> DEFINE tag == IF TagHeader = "Etag" THEN v ELSE NoTag
  <2>1. PICK d \in Revalidation :
          SetTop(t, [f EXCEPT !.pc = "return", !.response = Received(304, NoBody, d, tag)])
    BY <1>5
  <2>2. tag \in {NoTag, v} /\ d \in Directive
    BY RevalidationAssumption
  <2>3. LET r == Received(304, NoBody, d, tag)
        IN  r \in ResponseType /\ r.whole /\ r.expiration # Forever
    <3> HIDE DEF tag, v
    <3> QED BY <1>2, <1>4, <2>2
  <2>4. FetchedAs(t, tag, 304, d, "return", NoBody)
    <3> HIDE DEF tag
    <3> QED BY <1>5, <2>1, <2>3 DEF FetchedAs
  <2> HIDE DEF tag
  <2> QED BY <1>2, <2>2, <2>4
<1>6. CASE \E code \in Codes, d \in CacheControl[f.target[2]] :
             SetTop(t, [f EXCEPT !.pc = IF d = "max-age" THEN "open" ELSE "return",
               !.response = Received(code, new, d, IF TagHeader = "ETag" THEN v ELSE NoTag)])
  <2> DEFINE tag == IF TagHeader = "ETag" THEN v ELSE NoTag
  <2>1. PICK code \in Codes, d \in CacheControl[f.target[2]] :
          SetTop(t, [f EXCEPT !.pc = IF d = "max-age" THEN "open" ELSE "return",
                              !.response = Received(code, new, d, tag)])
    BY <1>6
  <2> DEFINE pc == IF d = "max-age" THEN "open" ELSE "return"
  <2>2. tag \in {NoTag, v} /\ d \in Directive
    BY <1>1, ResourceType, CacheControlAssumption
  <2>3. code \in Codes \cup {304} /\ code # 304 /\ pc \in {"open", "return"}
        /\ (pc = "open" <=> d = "max-age")
    BY <1>3
  <2>4. LET r == Received(code, new, d, tag)
        IN  r \in ResponseType /\ r.whole /\ r.expiration # Forever
    <3> HIDE DEF tag, v, new
    <3> QED BY <1>2, <1>4, <2>2, <2>3
  <2>5. FetchedAs(t, tag, code, d, pc, new)
    <3>1. SetTop(t, [f EXCEPT !.pc = pc, !.response = Received(code, new, d, tag)])
      BY <2>1
    <3> HIDE DEF tag, pc
    <3> QED BY <2>3, <2>4, <3>1 DEF FetchedAs
  <2> HIDE DEF tag, pc
  <2> QED BY <1>2, <2>2, <2>3, <2>5
<1> QED
  BY <1>5, <1>6, Zenon DEF Fetch

LEMMA FetchingWhole ==
  ASSUME OneThread, TypeInv, WholeInv, NEW t \in Threads,
         FollowRedirect(t) \/ FetchFails(t) \/ Fetch(t)
  PROVE  WholeInv'
<1> DEFINE f == Top(t)
<1>1. stack[t] # <<>> /\ f.pc = "fetch" /\ UNCHANGED <<disk, reply>> /\ f \in WholeFrames
      /\ f \in Frames
  BY WholeTop DEF FollowRedirect, FetchFails, Fetch, AtPc
<1>2. CASE FollowRedirect(t)
  <2> DEFINE g == [f EXCEPT !.target = ParseLocation(@)]
  <2>1. SetTop(t, g)
    BY <1>2 DEF FollowRedirect
  <2>2. ParseLocation(f.target) \in Resources
    BY <1>1, <1>2, ParseLocationType DEF FollowRedirect, Frames, FrameType
  <2>3. g \in WholeFrames /\ g.pc = "fetch"
    <3> HIDE DEF f
    <3> QED BY <1>1, <2>2 DEF WholeFrames, Frames, FrameType, Storing
  <2> HIDE DEF g
  <2> QED
    BY <1>1, <2>1, <2>3, WholeSetTop
<1>3. CASE FetchFails(t)
  <2>1. NoResponse \in ResponseType /\ NoResponse.whole /\ NoResponse.expiration # Forever
    BY NoResponseType DEF NoResponse
  <2> QED
    BY <1>1, <1>3, <2>1, WholeReturn DEF FetchFails
<1>4. CASE Fetch(t)
  <2>1. PICK tag \in {NoTag, Version(f.target)}, code \in Codes \cup {304}, d \in Directive,
             pc \in {"open", "return"}, body \in BodyType :
          FetchedAs(t, tag, code, d, pc, body)
    BY <1>4, FetchCases
  <2> DEFINE r == Received(code, body, d, tag)
  <2>2. r \in ResponseType /\ r.whole /\ r.expiration # Forever
        /\ SetTop(t, [Top(t) EXCEPT !.pc = pc, !.response = r])
    BY <2>1 DEF FetchedAs
  <2>3. r.code = code /\ r.body = body
    BY DEF Received, NoResponse
  <2>4. ASSUME pc = "open" PROVE code \in Codes /\ body # NoBody
    <3>1. code \in Codes /\ body = [of |-> f.target, ver |-> Version(f.target)]
      BY <2>1, <2>4 DEF FetchedAs
    <3>2. f.target # <<>>
      <4>1. PICK o \in Origins, u \in Uris : f.target = <<o, u>>
        BY <1>1 DEF Frames, FrameType, Resources
      <4>2. <<o, u>> # <<>>
        OBVIOUS
      <4> QED
        BY <4>1, <4>2
    <3> QED
      BY <3>1, <3>2 DEF NoBody
  <2> HIDE DEF r
  <2> QED
    BY <1>1, <2>2, <2>3, <2>4, WholeReturn
<1> QED
  BY <1>2, <1>3, <1>4

LEMMA CheckWhole ==
  ASSUME OneThread, TypeInv, WholeInv, NEW t \in Threads, Check(t) \/ Erase(t) PROVE WholeInv'
<1>1. stack[t] # <<>> /\ Top(t).pc # "write" /\ UNCHANGED <<disk, reply>>
  BY DEF Check, Erase, AtPc
<1>2. PICK pc \in {"tag", "read", "find"} : Goto(t, pc)
  BY DEF Check, Erase
<1> QED
  BY <1>1, <1>2, WholeGoto

LEMMA TakeTagWhole ==
  ASSUME OneThread, TypeInv, WholeInv, NEW t \in Threads, TakeTag(t) PROVE WholeInv'
<1> DEFINE h == Handler(t)
           f == Top(t)
           e == At(h, f.path)
           g == [f EXCEPT !.pc = "updating"]
           k == [Frame(h, f.uri, e.e_tag) EXCEPT !.pc = "erase"]
           s == Front(stack[t])
<1>1. stack[t] # <<>> /\ f.pc = "tag" /\ UNCHANGED <<disk, reply>> /\ f \in WholeFrames
      /\ f \in Frames /\ h \in Handlers /\ f.path \in Paths /\ f.uri \in Uris
  BY WholeTop, HandlerType DEF TakeTag, AtPc, TypeInv, Frames, FrameType
<1>2. g \in WholeFrames
  <2> HIDE DEF f
  <2> QED BY <1>1 DEF WholeFrames, Frames, FrameType, Storing
<1>3. e.e_tag \in Nat \cup {NoTag}
  BY <1>1, EntryOK DEF TypeInv, EntryType
<1>4. k \in WholeFrames /\ k.pc = "erase"
  <2> DEFINE uri == f.uri
             tag == e.e_tag
  <2>1. /\ h \in Handlers /\ uri \in Uris /\ tag \in Nat \cup {NoTag}
        /\ k = [Frame(h, uri, tag) EXCEPT !.pc = "erase"]
    BY <1>1, <1>3
  <2> HIDE DEF uri, tag, k, h
  <2>2. k \in Frames /\ k.response = NoResponse /\ k.pc = "erase"
    BY <2>1, UpdateOK
  <2> QED BY <2>2 DEF WholeFrames, Storing, NoResponse
<1>5. s \in Seq(WholeFrames)
  BY <1>1, PopType DEF WholeInv
<1>6. stack'[t] = s \o <<g, k>>
  BY DEF TakeTag, TypeInv, TypeOK
<1> HIDE DEF g, k, s
<1>7. (s \o <<g>>) \o <<k>> = s \o <<g, k>> /\ s \o <<g>> \in Seq(WholeFrames)
  BY <1>2, <1>4, <1>5, PushTwo, PushType
<1>8. stack'[t] \in Seq(WholeFrames) /\ Last(stack'[t]) = k
  <2> DEFINE u == s \o <<g>>
  <2>1. u \in Seq(WholeFrames) /\ stack'[t] = u \o <<k>>
    BY <1>6, <1>7
  <2> HIDE DEF u
  <2> QED BY <1>4, <2>1, LastPush, PushType
<1>9. reply'[t].whole
  BY <1>1 DEF WholeInv
<1> QED
  BY <1>1, <1>4, <1>8, <1>9, WholeStep DEF AtPc, Top

LEMMA ReturnWhole ==
  ASSUME OneThread, TypeInv, WholeInv, NEW t \in Threads,
         ReturnToClient(t) \/ ReturnToUpdate(t)
  PROVE  WholeInv'
<1>1. stack[t] # <<>> /\ Top(t).pc = "return" /\ UNCHANGED disk /\ Top(t) \in WholeFrames
  BY WholeTop DEF ReturnToClient, ReturnToUpdate, Processing, AtPc
<1>2. CASE ReturnToClient(t)
  <2>1. stack'[t] = <<>> /\ reply'[t] = Top(t).response
    BY <1>2 DEF ReturnToClient, TypeInv, TypeOK
  <2>2. stack'[t] \in Seq(WholeFrames) /\ reply'[t].whole
    BY <1>1, <2>1 DEF WholeFrames
  <2> QED
    BY <1>1, <2>1, <2>2, WholeStep DEF AtPc
<1>3. CASE ReturnToUpdate(t)
  <2> DEFINE below == Front(stack[t])
             f == Last(below)
             pc == Updated(Top(t).response)
             g == [f EXCEPT !.pc = pc]
  <2>1. below \in Seq(WholeFrames) /\ below # <<>>
    <3>1. stack[t] \in Seq(WholeFrames) /\ Len(stack[t]) > 1
      BY <1>3 DEF ReturnToUpdate, Processing, WholeInv
    <3>2. below \in Seq(WholeFrames) /\ Len(below) = Len(stack[t]) - 1
      BY <1>1, <3>1, PopType
    <3> QED
      BY <3>1, <3>2
  <2>2. f \in WholeFrames /\ Front(below) \in Seq(WholeFrames)
    BY <2>1, PopType
  <2>3. pc \in {"read", "fetch"}
    BY DEF Updated
  <2>4. g \in WholeFrames /\ g.pc = pc
    <3> HIDE DEF f, pc
    <3> QED BY <2>2, <2>3 DEF WholeFrames, Frames, FrameType, Storing
  <2>5. stack'[t] = Front(below) \o <<g>> /\ reply'[t] = reply[t]
    BY <1>3 DEF ReturnToUpdate, TypeInv, TypeOK
  <2> HIDE DEF g, below, pc
  <2>6. stack'[t] \in Seq(WholeFrames) /\ Last(stack'[t]) = g
    BY <2>2, <2>4, <2>5, LastPush, PushType
  <2>7. reply'[t].whole
    BY <2>5 DEF WholeInv
  <2> QED
    BY <1>1, <2>3, <2>4, <2>6, <2>7, WholeStep DEF AtPc, Top
<1> QED
  BY <1>2, <1>3

\* The innermost frame of t goes on to pc, whatever happens to the files.
LEMMA StoringTop ==
  ASSUME TypeInv, WholeInv, NEW t \in Threads, stack[t] # <<>>, Top(t).pc \in Storing,
         NEW pc \in {"write", "enter"}, Goto(t, pc)
  PROVE  /\ stack'[t] \in Seq(WholeFrames) /\ stack'[t] # <<>>
         /\ Last(stack'[t]) = [Top(t) EXCEPT !.pc = pc]
         /\ Last(stack'[t]).pc = pc
         /\ Last(stack'[t]).path = Top(t).path
<1> DEFINE f == Top(t)
           g == [f EXCEPT !.pc = pc]
<1>1. f \in WholeFrames /\ f \in Frames /\ f.pc \in Storing
  BY WholeTop
<1> HIDE DEF f
<1>2. g \in Frames
  BY <1>1, StoringOK
<1>3. g.pc = pc /\ g.response = f.response /\ g.path = f.path
  BY <1>1 DEF Frames, FrameType
<1>4. SetTop(t, g)
  BY DEF Goto, f
<1> HIDE DEF g
<1>5. g \in WholeFrames
  BY <1>1, <1>2, <1>3 DEF WholeFrames
<1>6. stack'[t] \in Seq(WholeFrames) /\ stack'[t] # <<>> /\ Last(stack'[t]) = g
  BY <1>4, <1>5, SetTopTop DEF WholeInv, TypeInv, TypeOK
<1> QED
  BY <1>3, <1>6 DEF f, g

LEMMA StoringWhole ==
  ASSUME OneThread, TypeInv, WholeInv, NEW t \in Threads, Open(t) \/ Write(t) \/ Enter(t)
  PROVE  WholeInv'
<1> DEFINE f == Top(t)
<1>1. /\ stack[t] # <<>> /\ UNCHANGED reply /\ f \in WholeFrames /\ f.pc \in Storing
      /\ f.path \in Paths /\ f.response.body # NoBody
  BY WholeTop DEF Open, Write, Enter, AtPc, WholeFrames, Frames, FrameType, Storing
<1>2. \A u \in Threads : u = t
  BY DEF OneThread
<1>3. CASE Open(t) /\ UNCHANGED disk
  <2>1. Goto(t, "enter") \/ Goto(t, "write")
    BY <1>3 DEF Open
  <2>2. CASE Goto(t, "enter")
    BY <1>1, <1>3, <2>2, WholeGoto DEF Open, AtPc
  <2>3. CASE ~Goto(t, "enter")
    <3>1. disk' = [disk EXCEPT ![f.path] = [NoFile EXCEPT !.state = "empty"]] /\ f.pc = "open"
      BY <1>3, <2>3 DEF Open, AtPc
    <3>2. disk[f.path].state = "empty"
      BY <1>1, <1>3, <3>1 DEF TypeInv, TypeOK, NoFile
    <3> QED
      BY <1>1, <1>2, <3>1, <3>2 DEF WholeInv, FilesWhole, Writing, AtPc
  <2> QED
    BY <2>2, <2>3
<1>4. CASE Open(t) /\ ~UNCHANGED disk
  <2>1. /\ disk' = [disk EXCEPT ![f.path] = [NoFile EXCEPT !.state = "empty"]]
        /\ Goto(t, "write") /\ f.pc = "open"
    BY <1>4 DEF Open, AtPc
  <2>2. stack'[t] \in Seq(WholeFrames) /\ stack'[t] # <<>>
        /\ Last(stack'[t]).pc = "write" /\ Last(stack'[t]).path = f.path
    BY <1>1, <2>1, StoringTop
  <2>3. \A p \in Paths : Writing(t, p)' <=> p = f.path
    BY <2>2 DEF Writing, AtPc, Top
  <2>4. \A p \in Paths : ~Writing(t, p)
    BY <2>1 DEF Writing, AtPc
  <2>5. disk'[f.path].state = "empty" /\ \A p \in Paths \ {f.path} : disk'[p] = disk[p]
    BY <1>1, <2>1 DEF TypeInv, TypeOK, NoFile
  <2>6. FilesWhole'
    <3> HIDE DEF f
    <3> QED BY <1>1, <1>2, <2>3, <2>4, <2>5 DEF WholeInv, FilesWhole
  <2> QED
    BY <1>1, <1>2, <2>2, <2>6 DEF WholeInv
<1>5. CASE Write(t)
  <2>1. f.pc = "write" /\ Goto(t, "enter")
    BY <1>5 DEF Write, AtPc
  <2>2. stack'[t] \in Seq(WholeFrames) /\ stack'[t] # <<>> /\ Last(stack'[t]).pc = "enter"
    BY <1>1, <2>1, StoringTop
  <2>3. \A p \in Paths : ~Writing(t, p)' /\ (Writing(t, p) <=> p = f.path)
    BY <1>1, <2>1, <2>2 DEF Writing, AtPc, Top
  <2>4. disk[f.path].state = "empty"
    BY <1>1, <2>3 DEF WholeInv, FilesWhole
  <2>5. /\ disk'[f.path].state = "whole" /\ disk'[f.path].body = f.response.body
        /\ \A p \in Paths \ {f.path} : disk'[p] = disk[p]
    BY <1>1, <1>5, <2>4 DEF Write, TypeInv, TypeOK
  <2>6. FilesWhole'
    <3> HIDE DEF f
    <3> QED BY <1>1, <1>2, <2>3, <2>5 DEF WholeInv, FilesWhole
  <2> QED
    BY <1>1, <1>2, <2>2, <2>6 DEF WholeInv
<1>6. CASE Enter(t)
  BY <1>1, <1>6, WholeGoto DEF Enter, AtPc
<1> QED
  BY <1>3, <1>4, <1>5, <1>6

\* A step that is none of a frame's.
LEMMA StillWhole ==
  ASSUME WholeInv, UNCHANGED <<stack, disk, reply>>
  PROVE  WholeInv'
BY DEF WholeInv, FilesWhole, Writing, AtPc, Top

LEMMA ArriveWhole ==
  ASSUME OneThread, TypeInv, WholeInv, NEW t \in Threads, Arrive(t) PROVE WholeInv'
<1>1. PICK h \in Handlers, uri \in Uris :
        stack' = [stack EXCEPT ![t] = <<Frame(h, uri, NoTag)>>]
  BY DEF Arrive
<1> DEFINE k == Frame(h, uri, NoTag)
<1>2. k \in Frames /\ k.response = NoResponse /\ k.pc = "find"
  BY FrameOK DEF Frame
<1>3. stack'[t] = <<k>> /\ stack[t] = <<>> /\ reply'[t] = NoResponse /\ UNCHANGED disk
  BY <1>1 DEF Arrive, TypeInv, TypeOK
<1> HIDE DEF k
<1>4. k \in WholeFrames
  BY <1>2 DEF WholeFrames, Storing, NoResponse
<1>5. stack'[t] \in Seq(WholeFrames) /\ Last(stack'[t]) = k /\ reply'[t].whole
  BY <1>3, <1>4 DEF Last, NoResponse
<1> QED
  BY <1>2, <1>3, <1>5, WholeStep DEF AtPc, Top

LEMMA InitWhole == Init => WholeInv
<1> SUFFICES ASSUME Init PROVE WholeInv
  OBVIOUS
<1>1. \A p \in Paths : disk[p].state = "none" /\ \A t \in Threads : ~Writing(t, p)
  BY DEF Init, NoFile, Writing, AtPc
<1>2. FilesWhole
  BY <1>1 DEF FilesWhole
<1>3. \A t \in Threads : stack[t] \in Seq(WholeFrames) /\ reply[t].whole
  BY DEF Init, NoResponse
<1> QED
  BY <1>2, <1>3 DEF WholeInv

LEMMA NextWhole == OneThread /\ TypeInv /\ WholeInv /\ [Next]_vars => WholeInv'
<1> SUFFICES ASSUME OneThread, TypeInv, WholeInv, [Next]_vars PROVE WholeInv'
  OBVIOUS
<1>1. CASE UNCHANGED vars
  BY <1>1, StillWhole DEF vars
<1>2. CASE Next
  <2>1. CASE \/ Tick \/ MapRace
             \/ \E r \in Published : Publish(r)
             \/ \E t \in Threads : Ends(t)
    BY <2>1, EndsStep, StillWhole DEF Tick, Publish
  <2>2. ASSUME NEW t \in Threads, Find(t) PROVE WholeInv'
    <3>1. stack[t] # <<>> /\ Top(t).pc = "find" /\ UNCHANGED <<disk, reply>>
      BY <2>2 DEF Find, AtPc
    <3>2. PICK pc \in {"check", "fetch"} : Goto(t, pc)
      BY <2>2 DEF Find
    <3> QED
      BY <3>1, <3>2, WholeGoto
  <2>3. ASSUME NEW t \in Threads, Arrive(t) \/ (Handle(t) /\ ~Ends(t) /\ ~Find(t))
        PROVE  WholeInv'
    BY <2>3, ArriveWhole, CheckWhole, TakeTagWhole, ReadWhole, FetchingWhole, StoringWhole,
       ReturnWhole DEF Handle, Ends
  <2> QED
    BY <1>2, <2>1, <2>2, <2>3 DEF Next, Handle
<1> QED
  BY <1>1, <1>2

-----------------------------------------------------------------------------
(***************************************************************************)
(* Behind every entry there is a file, or there can be none: its path is   *)
(* where a directory is needed, or below a file.  Files and directories    *)
(* are never removed, so that what is so once remains so, in whatever      *)
(* order the threads work; a frame that knows a tag, or holds a 304, goes  *)
(* back to an entry.  UpdateCache calls HandleRequest with a URI the       *)
(* prefix is already gone from, which takes it away once more: both frames *)
(* have one path when there is none left.                                  *)
(***************************************************************************)
\* The prefix is nowhere in what is left when it has been erased, not even as
\* letters of a segment: false of "/q/query" below "/q", of which "/query" is left.
StripsOnce == \A h \in Handlers, u \in Uris : Strip(h, Strip(h, u)) = Strip(h, u)

Exists(p) == disk[p].state # "none"

\* A file is where no directory is needed, and those above it are there.
FilesApart == \A p \in Paths : Exists(p) => ~Clash(p) /\ DirsAbove(p) \subseteq dirs

Backed(p) == Clash(p) \/ Exists(p)

\* The frames of a request to h for uri.
BackedFrames(h, uri) ==
  {f \in Frames :
     /\ f.uri = Strip(h, uri) /\ f.path = PathOf(f.uri)
     /\ \/ f.if_none_match # NoTag
        \/ f.response.code = 304
        \/ f.pc \in {"check", "tag", "write", "enter"}
        => Backed(f.path)
     /\ f.pc = "write" => Exists(f.path)}

StacksBacked == \A t \in Threads : stack[t] \in Seq(BackedFrames(Handler(t), client[t].uri))
EntriesBacked == \A h \in Handlers, p \in Paths : cache[h][p].here => Backed(p)

BackedInv == FilesApart /\ StacksBacked /\ EntriesBacked

\* Nothing is removed.
Grows ==
  /\ dirs \subseteq dirs'
  /\ \A p \in Paths : Exists(p) => Exists(p)'

LEMMA BackedGrows ==
  ASSUME Grows, NEW p, Backed(p), p \in Paths
  PROVE  Backed(p)'
BY DEF Grows, Backed, Clash, FilesAbove, Exists

LEMMA FramesGrow ==
  ASSUME Grows, NEW h, NEW uri, NEW s \in Seq(BackedFrames(h, uri))
  PROVE  s \in Seq(BackedFrames(h, uri))'
<1>1. ASSUME NEW f \in BackedFrames(h, uri) PROVE f \in BackedFrames(h, uri)'
  <2>1. f \in Frames /\ f.path \in Paths
    BY DEF BackedFrames, Frames, FrameType
  <2>2. Backed(f.path) => Backed(f.path)'
    BY <2>1, BackedGrows
  <2>3. Exists(f.path) => Exists(f.path)'
    BY <2>1 DEF Grows
  <2> QED
    BY <2>1, <2>2, <2>3 DEF BackedFrames
<1> DEFINE S == BackedFrames(h, uri)
           T == BackedFrames(h, uri)'
<1>2. S \subseteq T /\ s \in Seq(S)
  BY <1>1
<1> HIDE DEF S, T
<1>3. s \in Seq(T)
  BY <1>2
<1> QED
  BY <1>3 DEF T

\* One thread's stack changes, and the files and entries with it.
LEMMA BackedStep ==
  ASSUME TypeInv, BackedInv, Grows, FilesApart', NEW t \in Threads, NEW s,
         UNCHANGED client, stack' = [stack EXCEPT ![t] = s],
         s \in Seq(BackedFrames(Handler(t), client[t].uri))',
         \A h \in Handlers, p \in Paths :
           cache'[h][p].here => cache[h][p].here \/ Backed(p)
  PROVE  BackedInv'
<1>1. ASSUME NEW u \in Threads
      PROVE  stack'[u] \in Seq(BackedFrames(Handler(u), client[u].uri))'
  <2>1. CASE u = t
    BY <2>1 DEF TypeInv, TypeOK
  <2>2. CASE u # t
    <3>1. stack'[u] = stack[u] /\ stack[u] \in Seq(BackedFrames(Handler(u), client[u].uri))
      BY <2>2 DEF TypeInv, TypeOK, BackedInv, StacksBacked
    <3> DEFINE h == Handler(u)
               uri == client[u].uri
    <3>2. PICK g, v : g = h /\ v = uri
      OBVIOUS
    <3>3. g = h' /\ v = uri'
      BY <3>2 DEF Handler
    <3>4. stack[u] \in Seq(BackedFrames(g, v))'
      BY <3>1, <3>2, FramesGrow
    <3> QED
      BY <3>1, <3>3, <3>4
  <2> QED
    BY <2>1, <2>2
<1>2. EntriesBacked'
  BY BackedGrows DEF BackedInv, EntriesBacked
<1> QED
  BY <1>1, <1>2 DEF BackedInv, StacksBacked

\* The same when no file and no directory is made.
LEMMA BackedStack ==
  ASSUME TypeInv, BackedInv, NEW t \in Threads, NEW s,
         UNCHANGED <<disk, dirs, client>>, stack' = [stack EXCEPT ![t] = s],
         s \in Seq(BackedFrames(Handler(t), client[t].uri)),
         \A h \in Handlers, p \in Paths :
           cache'[h][p].here => cache[h][p].here \/ Backed(p)
  PROVE  BackedInv'
<1>1. Grows
  BY DEF Grows, Exists
<1>2. FilesApart'
  BY DEF BackedInv, FilesApart, Exists, Clash, FilesAbove
<1>3. s \in Seq(BackedFrames(Handler(t), client[t].uri))'
  BY DEF BackedFrames, Backed, Exists, Clash, FilesAbove, Handler
<1> QED
  BY <1>1, <1>2, <1>3, BackedStep

LEMMA BackedTop ==
  ASSUME BackedInv, NEW t \in Threads, stack[t] # <<>>
  PROVE  /\ Top(t) \in BackedFrames(Handler(t), client[t].uri)
         /\ Top(t) \in Frames
         /\ Front(stack[t]) \in Seq(BackedFrames(Handler(t), client[t].uri))
BY TopType, PopType DEF BackedInv, StacksBacked, BackedFrames

LEMMA BackedSetTop ==
  ASSUME TypeInv, BackedInv, NEW t \in Threads, stack[t] # <<>>,
         NEW f \in BackedFrames(Handler(t), client[t].uri), SetTop(t, f),
         UNCHANGED <<disk, dirs, client>>,
         \A h \in Handlers, p \in Paths :
           cache'[h][p].here => cache[h][p].here \/ Backed(p)
  PROVE  BackedInv'
<1> DEFINE S == BackedFrames(Handler(t), client[t].uri)
           u == Front(stack[t])
<1>1. u \in Seq(S) /\ stack' = [stack EXCEPT ![t] = u \o <<f>>]
  BY BackedTop DEF SetTop
<1>2. u \o <<f>> \in Seq(S)
  <2> HIDE DEF S, u
  <2> QED BY <1>1, PushType DEF S
<1> HIDE DEF u
<1> QED
  BY <1>1, <1>2, BackedStack

\* Steps that only go on, to neither Write nor Enter, and to Check and TakeTag
\* with a file behind them.
LEMMA BackedGoto ==
  ASSUME TypeInv, BackedInv, NEW t \in Threads, stack[t] # <<>>,
         NEW pc \in {"find", "check", "tag", "read", "fetch", "return", "spin"}, Goto(t, pc),
         pc \in {"check", "tag"} => Backed(Top(t).path), UNCHANGED <<disk, dirs, client>>,
         \A h \in Handlers, p \in Paths :
           cache'[h][p].here => cache[h][p].here \/ Backed(p)
  PROVE  BackedInv'
<1> DEFINE f == Top(t)
           g == [f EXCEPT !.pc = pc]
<1>1. f \in BackedFrames(Handler(t), client[t].uri) /\ f \in Frames
  BY BackedTop
<1> HIDE DEF f
<1>2. g \in Frames
  BY <1>1, GotoOK
<1>3. /\ g.uri = f.uri /\ g.path = f.path /\ g.pc = pc /\ g.response = f.response
      /\ g.if_none_match = f.if_none_match
      /\ pc \in {"check", "tag"} => Backed(f.path)
  BY <1>1 DEF Frames, FrameType, f
<1>4. SetTop(t, g)
  BY DEF Goto, f
<1> HIDE DEF g
<1>5. g \in BackedFrames(Handler(t), client[t].uri)
  BY <1>1, <1>2, <1>3 DEF BackedFrames
<1> QED
  BY <1>4, <1>5, BackedSetTop

\* Steps that set the response of the frame.
LEMMA BackedReturn ==
  ASSUME TypeInv, BackedInv, NEW t \in Threads, stack[t] # <<>>,
         NEW pc \in {"open", "return"}, NEW r \in ResponseType,
         r.expiration # Forever \/ (pc = "return" /\ r.code # 304),
         pc = "open" => r.code \in Codes,
         r.code = 304 => Backed(Top(t).path),
         SetTop(t, [Top(t) EXCEPT !.pc = pc, !.response = r]),
         UNCHANGED <<disk, dirs, client>>,
         \A h \in Handlers, p \in Paths :
           cache'[h][p].here => cache[h][p].here \/ Backed(p)
  PROVE  BackedInv'
<1> DEFINE f == Top(t)
           g == [f EXCEPT !.pc = pc, !.response = r]
<1>1. f \in BackedFrames(Handler(t), client[t].uri) /\ f \in Frames
      /\ (r.code = 304 => Backed(f.path))
  BY BackedTop
<1> HIDE DEF f
<1>2. g \in Frames
  BY <1>1, ReturnOK, StoreOK
<1>3. /\ g.uri = f.uri /\ g.path = f.path /\ g.pc = pc /\ g.response = r
      /\ g.if_none_match = f.if_none_match
  BY <1>1 DEF Frames, FrameType
<1>4. SetTop(t, g)
  BY DEF f
<1> HIDE DEF g
<1>5. g \in BackedFrames(Handler(t), client[t].uri)
  BY <1>1, <1>2, <1>3 DEF BackedFrames
<1> QED
  BY <1>4, <1>5, BackedSetTop

\* A path is not above itself.
LEMMA NotAbove ==
  ASSUME NEW p \in Paths
  PROVE  p \notin DirsAbove(p)
<1>1. PICK u \in Uris : p = PathOf(u)
  BY DEF Paths
<1> DEFINE S == STRING \cup {"i", "n", "d", "e", "x"}
           index == <<"i", "n", "d", "e", "x">>
<1>2. u \in Seq(S) /\ index \in Seq(S)
  <2> DEFINE T == STRING
  <2>1. u \in Seq(T) /\ T \subseteq S
    BY <1>1, UrisAssumption
  <2>2. u \in Seq(S)
    <3> HIDE DEF S, T
    <3> QED BY <2>1
  <2>3. "i" \in S /\ "n" \in S /\ "d" \in S /\ "e" \in S /\ "x" \in S
    OBVIOUS
  <2> HIDE DEF S
  <2> QED BY <2>2, <2>3
<1> HIDE DEF S, index
<1>3. p \in Seq(S)
  BY <1>1, <1>2 DEF PathOf, index
<1>4. \A i \in 2..Len(p) : Len(SubSeq(p, 1, i - 1)) # Len(p)
  BY <1>3
<1> QED
  BY <1>4 DEF DirsAbove

\* Opening makes the directories that no file stands in the way of, and the file
\* when none does (MakeCache).
LEMMA OpenApart ==
  ASSUME TypeInv, FilesApart, NEW t \in Threads, Open(t),
         NEW path \in Paths, path = Top(t).path
  PROVE  /\ FilesApart' /\ Grows /\ Backed(path)'
         /\ (Goto(t, "write") /\ Exists(path)') \/ Goto(t, "enter")
<1>1. /\ dirs' = dirs \cup {d \in DirsAbove(path) : d \in Paths => disk[d].state = "none"}
      /\ path \in Paths
  BY DEF Open
<1>2. CASE Clash(path)
  <2>1. disk' = disk /\ Goto(t, "enter")
    BY <1>2 DEF Open
  <2>2. \A p \in Paths : Exists(p)' <=> Exists(p)
    BY <2>1 DEF Exists
  <2>3. \A p \in Paths : FilesAbove(p)' = FilesAbove(p)
    BY <2>1 DEF FilesAbove
  <2>4. Grows
    BY <1>1, <2>2 DEF Grows
  <2>5. ASSUME NEW p \in Paths, Exists(p) PROVE p \notin dirs'
    BY <1>1, <2>5 DEF Exists, FilesApart, Clash
  <2>6. FilesApart'
    BY <1>1, <2>2, <2>3, <2>5 DEF FilesApart, Clash, DirsAbove
  <2>7. Clash(path)'
    BY <1>1, <1>2, <2>3 DEF Clash
  <2> QED
    BY <2>1, <2>4, <2>6, <2>7 DEF Backed
<1>3. CASE ~Clash(path)
  <2>1. disk' = [disk EXCEPT ![path] = [NoFile EXCEPT !.state = "empty"]]
    BY <1>3 DEF Open
  <2>2. \A p \in Paths : Exists(p)' <=> (Exists(p) \/ p = path)
    BY <1>1, <2>1 DEF Exists, NoFile, TypeInv, TypeOK
  <2>3. Grows
    BY <1>1, <2>2 DEF Grows
  <2>4. DirsAbove(path) \subseteq dirs'
    BY <1>1, <1>3 DEF Clash, FilesAbove
  <2>5. path \notin DirsAbove(path)
    BY <1>1, NotAbove
  <2>6. ASSUME NEW p \in Paths, Exists(p)' PROVE p \notin dirs' /\ DirsAbove(p) \subseteq dirs'
    <3>1. CASE p = path
      BY <1>1, <1>3, <2>4, <2>5, <3>1 DEF Clash
    <3>2. CASE p # path
      <4>1. Exists(p) /\ p \notin dirs /\ DirsAbove(p) \subseteq dirs
        BY <2>2, <2>6, <3>2 DEF FilesApart, Clash
      <4> QED
        BY <1>1, <4>1 DEF Exists
    <3> QED
      BY <3>1, <3>2
  <2>7. ASSUME NEW p \in Paths, Exists(p)', NEW d \in FilesAbove(p)' PROVE FALSE
    <3>1. d \in DirsAbove(p) /\ d \in Paths /\ Exists(d)'
      BY <2>7 DEF FilesAbove, Exists
    <3>2. d \in dirs'
      BY <2>6, <2>7, <3>1
    <3> QED
      BY <2>6, <3>1, <3>2
  <2>8. FilesApart'
    BY <2>6, <2>7 DEF FilesApart, Clash
  <2>9. Goto(t, "write")
    BY <1>3 DEF Open
  <2> QED
    BY <1>1, <2>2, <2>3, <2>8, <2>9 DEF Backed
<1> QED
  BY <1>2, <1>3

\* Steps that set the response of the frame and nothing else.
LEMMA BackedAnswer ==
  ASSUME TypeInv, BackedInv, NEW t \in Threads, stack[t] # <<>>,
         NEW pc \in {"open", "return"}, NEW r \in ResponseType,
         r.expiration # Forever \/ (pc = "return" /\ r.code # 304),
         pc = "open" => r.code \in Codes,
         r.code = 304 => Backed(Top(t).path),
         SetTop(t, [Top(t) EXCEPT !.pc = pc, !.response = r]),
         UNCHANGED <<disk, dirs, client, cache>>
  PROVE  BackedInv'
<1>1. \A h \in Handlers, p \in Paths : cache'[h][p].here => cache[h][p].here \/ Backed(p)
  OBVIOUS
<1>2. UNCHANGED <<disk, dirs, client>>
  OBVIOUS
<1> QED
  BY <1>1, <1>2, BackedReturn

LEMMA CheckBacked ==
  ASSUME TypeInv, BackedInv, NEW t \in Threads, Check(t) PROVE BackedInv'
<1> DEFINE h == Handler(t)
           q == Top(t).path
           e == At(h, q)
<1>1. /\ stack[t] # <<>> /\ h \in Handlers /\ q \in Paths /\ Backed(q)
      /\ UNCHANGED <<disk, dirs, client>>
  BY BackedTop, HandlerType DEF Check, AtPc, TypeInv, Frames, FrameType, BackedFrames
<1>2. \A g \in Handlers, p \in Paths : cache'[g][p].here => cache[g][p].here \/ Backed(p)
  <2>1. cache' = [cache EXCEPT ![h][q] = e] /\ cache \in [Handlers -> [Paths -> EntryType]]
    BY DEF Check, TypeInv, TypeOK
  <2> HIDE DEF h, q, e
  <2>2. \A g \in Handlers, p \in Paths : p = q \/ cache'[g][p] = cache[g][p]
    BY <1>1, <2>1
  <2> QED
    BY <1>1, <2>2, Zenon
<1>3. PICK pc \in {"tag", "read"} : Goto(t, pc)
  BY DEF Check
<1> QED
  BY <1>1, <1>2, <1>3, BackedGoto

LEMMA TakeTagBacked ==
  ASSUME StripsOnce, TypeInv, BackedInv, NEW t \in Threads, TakeTag(t) PROVE BackedInv'
<1> DEFINE h == Handler(t)
           f == Top(t)
           q == f.path
           e == At(h, q)
           S == BackedFrames(h, client[t].uri)
           g == [f EXCEPT !.pc = "updating"]
           k == [Frame(h, f.uri, e.e_tag) EXCEPT !.pc = "erase"]
           s == Front(stack[t])
<1>1. /\ stack[t] # <<>> /\ f \in S /\ f \in Frames /\ h \in Handlers /\ client[t].uri \in Uris
      /\ q \in Paths /\ f.uri \in Uris /\ s \in Seq(S) /\ f.pc = "tag"
  BY BackedTop, HandlerType DEF TakeTag, AtPc, TypeInv, Frames, FrameType
<1>2. Backed(q) /\ f.uri = Strip(h, client[t].uri) /\ q = PathOf(f.uri)
  BY <1>1 DEF BackedFrames
<1>3. \A i \in Handlers, p \in Paths : cache'[i][p].here => cache[i][p].here \/ Backed(p)
  <2>1. cache' = [cache EXCEPT ![h][q] = e] /\ cache \in [Handlers -> [Paths -> EntryType]]
    BY DEF TakeTag, TypeInv, TypeOK
  <2> HIDE DEF h, q, e
  <2>2. \A i \in Handlers, p \in Paths : p = q \/ cache'[i][p] = cache[i][p]
    BY <1>1, <2>1
  <2> QED
    BY <1>2, <2>2, Zenon
<1>4. g \in S
  <2>1. g \in Frames
    BY <1>1, GotoOK
  <2>2. /\ g.uri = f.uri /\ g.path = f.path /\ g.pc = "updating" /\ g.response = f.response
        /\ g.if_none_match = f.if_none_match
    BY <1>1 DEF Frames, FrameType
  <2> HIDE DEF g, f
  <2> QED BY <1>1, <2>1, <2>2 DEF BackedFrames
<1>5. k \in S
  <2>1. e.e_tag \in Nat \cup {NoTag}
    BY <1>1, EntryOK DEF TypeInv, EntryType
  <2> DEFINE uri == f.uri
             tag == e.e_tag
  <2>2. /\ h \in Handlers /\ uri \in Uris /\ tag \in Nat \cup {NoTag}
        /\ k = [Frame(h, uri, tag) EXCEPT !.pc = "erase"]
    BY <1>1, <2>1
  <2>3. Strip(h, uri) = uri /\ uri = Strip(h, client[t].uri) /\ Backed(PathOf(uri))
    BY <1>1, <1>2 DEF StripsOnce
  <2> HIDE DEF uri, tag, k, h
  <2>4. /\ k \in Frames /\ k.uri = uri /\ k.path = PathOf(uri) /\ k.pc = "erase"
    BY <2>2, <2>3, UpdateOK
  <2> QED
    BY <2>3, <2>4 DEF BackedFrames
<1>6. stack' = [stack EXCEPT ![t] = s \o <<g, k>>] /\ UNCHANGED <<disk, dirs, client>>
  BY DEF TakeTag
<1> HIDE DEF g, k, s, S
<1>7. (s \o <<g>>) \o <<k>> = s \o <<g, k>> /\ s \o <<g>> \in Seq(S)
  <2>1. s \in Seq(S)
    BY <1>1
  <2>2. s \o <<g>> \in Seq(S)
    BY <1>4, <2>1, PushType
  <2>3. (s \o <<g>>) \o <<k>> = s \o <<g, k>>
    BY <1>4, <1>5, <2>1, PushTwo
  <2> QED
    BY <2>2, <2>3
<1>8. s \o <<g, k>> \in Seq(S)
  <2> DEFINE u == s \o <<g>>
  <2>1. u \in Seq(S) /\ s \o <<g, k>> = u \o <<k>>
    BY <1>7
  <2> HIDE DEF u
  <2> QED BY <1>5, <2>1, PushType
<1> QED
  BY <1>3, <1>6, <1>8, BackedStack DEF S

LEMMA EraseBacked ==
  ASSUME TypeInv, BackedInv, NEW t \in Threads, Erase(t) PROVE BackedInv'
<1> DEFINE h == Handler(t)
           q == Last(Front(stack[t])).path
<1>1. stack[t] # <<>> /\ Goto(t, "find") /\ UNCHANGED <<disk, dirs, client>>
  BY DEF Erase, AtPc
<1>2. \A g \in Handlers, p \in Paths : cache'[g][p].here => cache[g][p].here \/ Backed(p)
  <2>1. cache' = [cache EXCEPT ![h][q] = Absent] /\ cache \in [Handlers -> [Paths -> EntryType]]
    BY DEF Erase, TypeInv, TypeOK
  <2>2. ~Absent.here
    BY DEF Absent, Default, Entry
  <2> HIDE DEF h, q
  <2>3. \A g \in Handlers, p \in Paths : cache'[g][p] = cache[g][p] \/ cache'[g][p] = Absent
    BY <2>1
  <2> QED
    BY <2>2, <2>3, Zenon
<1> QED
  BY <1>1, <1>2, BackedGoto

LEMMA ReadBacked ==
  ASSUME TypeInv, BackedInv, NEW t \in Threads, Read(t) PROVE BackedInv'
<1> DEFINE f == Top(t)
           file == disk[f.path]
           empty == [NoResponse EXCEPT !.ok = TRUE, !.whole = FALSE, !.source = "cache"]
<1>1. stack[t] # <<>> /\ UNCHANGED <<disk, dirs, client>> /\ f.path \in Paths
      /\ Handler(t) \in Handlers
  BY TopOK, HandlerType DEF Read, AtPc, TypeInv, Frames, FrameType
<1>2. CASE Goto(t, "spin") /\ UNCHANGED cache
  BY <1>1, <1>2, BackedGoto
<1>3. CASE SetTop(t, [f EXCEPT !.pc = "return", !.response = empty]) /\ UNCHANGED cache
  <2>1. empty \in ResponseType /\ empty.code = 0 /\ empty.expiration # Forever
    <3>1. PICK r : r = empty
      OBVIOUS
    <3>2. r = FromFile(0, NoBody, FALSE, NotADateTime)
      BY <3>1 DEF NoResponse, FromFile
    <3>3. /\ 0 \in {0} \cup Codes /\ NoBody \in BodyType /\ FALSE \in BOOLEAN
          /\ NotADateTime \in Nat \cup {NotADateTime, Forever}
      BY DEF BodyType
    <3>4. r \in ResponseType /\ r.code = 0
      BY <3>2, <3>3, FromFileType
    <3>5. r.expiration = NotADateTime /\ NotADateTime # Forever
      BY <3>2 DEF FromFile, NotADateTime, Forever
    <3> HIDE DEF empty
    <3> QED BY <3>1, <3>4, <3>5
  <2> HIDE DEF empty
  <2>2. \A h \in Handlers, p \in Paths : cache'[h][p].here => cache[h][p].here \/ Backed(p)
    BY <1>3
  <2>3. /\ empty.code # 304 /\ "return" \in {"open", "return"}
        /\ SetTop(t, [Top(t) EXCEPT !.pc = "return", !.response = empty])
    BY <1>3, <2>1
  <2> QED
    BY <1>1, <2>1, <2>2, <2>3, BackedReturn
<1>4. CASE Readable(f.path) /\ file.state # "empty"
  <2>1. PICK x : LET r == FromFile(file.code, file.body, file.state = "whole", x)
                 IN  /\ r \in ResponseType /\ r.code # 304
                     /\ SetTop(t, [f EXCEPT !.pc = "return", !.response = r])
                     /\ cache' = [cache EXCEPT ![Handler(t)][f.path] = At(Handler(t), f.path)]
    BY <1>4, ReadStored
  <2> DEFINE r == FromFile(file.code, file.body, file.state = "whole", x)
  <2>2. /\ r \in ResponseType /\ r.code # 304
        /\ SetTop(t, [Top(t) EXCEPT !.pc = "return", !.response = r])
    BY <2>1
  <2>3. \A h \in Handlers, p \in Paths : cache'[h][p].here => cache[h][p].here \/ Backed(p)
    <3>1. Backed(f.path)
      BY <1>4 DEF Readable, Backed, Exists
    <3> HIDE DEF f
    <3> QED BY <1>1, <2>1, <3>1 DEF TypeInv, TypeOK
  <2> HIDE DEF r
  <2> QED
    BY <1>1, <2>2, <2>3, BackedReturn
<1> QED
  BY <1>2, <1>3, <1>4 DEF Read

LEMMA FetchingBacked ==
  ASSUME TypeInv, BackedInv, NEW t \in Threads,
         FollowRedirect(t) \/ FetchFails(t) \/ Fetch(t)
  PROVE  BackedInv'
<1> DEFINE f == Top(t)
           S == BackedFrames(Handler(t), client[t].uri)
<1>1. stack[t] # <<>> /\ f.pc = "fetch" /\ f \in S /\ f \in Frames
  BY BackedTop DEF FollowRedirect, FetchFails, Fetch, AtPc
<1>2. UNCHANGED <<disk, dirs, client>>
  BY DEF FollowRedirect, FetchFails, Fetch
<1>6. \A h \in Handlers, p \in Paths : cache'[h][p].here => cache[h][p].here \/ Backed(p)
  BY DEF FollowRedirect, FetchFails, Fetch
<1>7. UNCHANGED <<disk, dirs, client, cache>>
  BY DEF FollowRedirect, FetchFails, Fetch
<1>3. CASE FollowRedirect(t)
  <2> DEFINE g == [f EXCEPT !.target = ParseLocation(@)]
  <2>1. SetTop(t, g)
    BY <1>3 DEF FollowRedirect
  <2>2. ParseLocation(f.target) \in Resources
    BY <1>1, <1>3, ParseLocationType DEF FollowRedirect, Frames, FrameType
  <2>3. g \in S
    <3> HIDE DEF f
    <3>1. g \in Frames
      BY <1>1, <2>2 DEF Frames, FrameType, Storing
    <3>2. /\ g.uri = f.uri /\ g.path = f.path /\ g.pc = f.pc /\ g.response = f.response
          /\ g.if_none_match = f.if_none_match
      BY <1>1 DEF Frames, FrameType
    <3> HIDE DEF g
    <3> QED BY <1>1, <3>1, <3>2 DEF BackedFrames
  <2> HIDE DEF g
  <2> QED
    BY <1>1, <1>2, <1>6, <2>1, <2>3, BackedSetTop
<1>4. CASE FetchFails(t)
  <2>1. SetTop(t, [Top(t) EXCEPT !.pc = "return", !.response = NoResponse])
    BY <1>4 DEF FetchFails
  <2>2. /\ NoResponse \in ResponseType /\ NoResponse.code # 304 /\ NoResponse.expiration # Forever
        /\ "return" \in {"open", "return"} /\ "return" # "open" /\ stack[t] # <<>>
    BY <1>1, NoResponseType
  <2> QED
    BY <1>7, <2>1, <2>2, BackedAnswer, Zenon
<1>5. CASE Fetch(t)
  <2>1. PICK tag \in {NoTag, Version(f.target)}, code \in Codes \cup {304}, d \in Directive,
             pc \in {"open", "return"}, body \in BodyType :
          FetchedAs(t, tag, code, d, pc, body)
    BY <1>5, FetchCases
  <2> DEFINE r == Received(code, body, d, tag)
  <2>2. /\ r \in ResponseType /\ r.expiration # Forever
        /\ SetTop(t, [Top(t) EXCEPT !.pc = pc, !.response = r])
        /\ pc = "open" => code # 304
        /\ code = 304 => f.if_none_match = Version(f.target)
    BY <2>1 DEF FetchedAs
  <2>3. r.code = code /\ (pc = "open" => code \in Codes)
    <3>1. r.code = code
      BY DEF Received, NoResponse
    <3> QED
      BY <2>2, <3>1
  <2>4. Version(f.target) # NoTag
    BY <1>1 DEF Version, NoTag, TypeInv, TypeOK, Frames, FrameType
  <2>5. code = 304 => Backed(f.path)
    BY <1>1, <2>2, <2>4 DEF BackedFrames
  <2>6. /\ stack[t] # <<>> /\ r \in ResponseType
        /\ r.expiration # Forever \/ (pc = "return" /\ r.code # 304)
        /\ pc = "open" => r.code \in Codes
        /\ r.code = 304 => Backed(Top(t).path)
    BY <1>1, <2>2, <2>3, <2>5
  <2> DEFINE g == [f EXCEPT !.pc = pc, !.response = r]
  <2>7. SetTop(t, g)
    BY <2>2
  <2> HIDE DEF r, f
  <2>8. g \in Frames
    <3>1. CASE pc = "open"
      BY <1>1, <2>6, <3>1 DEF Frames, FrameType, Storing
    <3>2. CASE pc = "return"
      BY <1>1, <2>6, <3>2 DEF Frames, FrameType, Storing
    <3> QED
      BY <2>1, <3>1, <3>2
  <2>9. /\ g.uri = f.uri /\ g.path = f.path /\ g.pc = pc /\ g.response = r
        /\ g.if_none_match = f.if_none_match
    BY <1>1 DEF Frames, FrameType
  <2>10. r.code = 304 => Backed(f.path)
    BY <2>6 DEF f
  <2> HIDE DEF g
  <2>11. g \in S
    BY <1>1, <2>8, <2>9, <2>10 DEF BackedFrames
  <2> QED
    BY <1>1, <1>2, <1>6, <2>7, <2>11, BackedSetTop
<1> QED
  BY <1>3, <1>4, <1>5

LEMMA StoringBacked ==
  ASSUME TypeInv, BackedInv, NEW t \in Threads, Open(t) \/ Write(t) \/ Enter(t)
  PROVE  BackedInv'
<1> DEFINE f == Top(t)
           h == Handler(t)
           uri == client[t].uri
<1>1. /\ stack[t] # <<>> /\ UNCHANGED client /\ f \in BackedFrames(h, uri) /\ f \in Frames
      /\ f.pc \in Storing /\ f.path \in Paths /\ h \in Handlers
      /\ Front(stack[t]) \in Seq(BackedFrames(h, uri))
  BY BackedTop, HandlerType
     DEF Open, Write, Enter, AtPc, TypeInv, Frames, FrameType, Storing
<1>2. Grows /\ FilesApart' /\ Backed(f.path) = Backed(f.path)
  <2>1. CASE Open(t)
    BY <1>1, <2>1, OpenApart DEF BackedInv
  <2>2. CASE Write(t)
    <3>1. Exists(f.path)
      BY <1>1, <2>2 DEF BackedFrames, Write, AtPc
    <3>2. dirs' = dirs /\ \A p \in Paths : Exists(p)' <=> Exists(p)
      BY <1>1, <2>2, <3>1 DEF Write, Exists, TypeInv, TypeOK
    <3>3. FilesApart'
      BY <3>2 DEF BackedInv, FilesApart, Clash, FilesAbove, Exists
    <3> QED
      BY <3>2, <3>3 DEF Grows
  <2>3. CASE Enter(t)
    BY <2>3 DEF Enter, Grows, BackedInv, FilesApart, Clash, FilesAbove, Exists
  <2> QED
    BY <2>1, <2>2, <2>3
<1>3. PICK g, v, q : g = h /\ v = uri /\ q = f.path
  OBVIOUS
<1>4. g = h' /\ v = uri'
  BY <1>1, <1>3 DEF Handler
<1>5. PICK pc \in {"write", "enter", "return"} :
        /\ Goto(t, pc)
        /\ pc \in {"write", "enter"} => Backed(q)'
        /\ pc = "write" => Exists(q)'
  <2>1. CASE Open(t)
    BY <1>1, <1>3, <2>1, OpenApart DEF BackedInv
  <2>2. CASE Write(t)
    <3>1. Goto(t, "enter") /\ f.pc = "write"
      BY <2>2 DEF Write, AtPc
    <3>2. Backed(q)'
      BY <1>1, <1>2, <1>3, <3>1, BackedGrows DEF BackedFrames
    <3> QED
      BY <3>1, <3>2
  <2>3. CASE Enter(t)
    BY <2>3 DEF Enter
  <2> QED
    BY <2>1, <2>2, <2>3
<1>6. \A i \in Handlers, p \in Paths : cache'[i][p].here => cache[i][p].here \/ Backed(p)
  <2>1. CASE UNCHANGED cache
    BY <2>1
  <2>2. CASE Enter(t)
    <3>1. Backed(f.path)
      BY <1>1, <2>2 DEF BackedFrames, Enter, AtPc
    <3>2. cache' = [cache EXCEPT ![h][f.path] = Entry(f.response.expiration, f.response.e_tag)]
      BY <2>2 DEF Enter
    <3> HIDE DEF f, h
    <3> QED BY <1>1, <3>1, <3>2 DEF TypeInv, TypeOK
  <2> QED
    BY <2>1, <2>2 DEF Open, Write
<1> DEFINE k == [f EXCEPT !.pc = pc]
           s == Front(stack[t])
           S == BackedFrames(g, v)'
<1>7. s \in Seq(S)
  BY <1>1, <1>2, <1>3, FramesGrow
<1>8. k \in S
  <2>1. k \in Frames
    BY <1>1, StoringOK
  <2>2. /\ k.uri = f.uri /\ k.path = f.path /\ k.pc = pc /\ k.response = f.response
        /\ k.if_none_match = f.if_none_match
    BY <1>1 DEF Frames, FrameType
  <2>3. f.if_none_match # NoTag \/ f.response.code = 304 => Backed(q)'
    BY <1>1, <1>2, <1>3, BackedGrows DEF BackedFrames
  <2>4. f.uri = Strip(g, v) /\ f.path = PathOf(f.uri)
    BY <1>1, <1>3 DEF BackedFrames
  <2>5. PICK x : x = k
    OBVIOUS
  <2>6. /\ x \in Frames /\ x.uri = Strip(g, v) /\ x.path = PathOf(x.uri) /\ x.path = q
        /\ x.pc = pc /\ (x.if_none_match # NoTag \/ x.response.code = 304 => Backed(q)')
    <3> HIDE DEF k, f
    <3> QED BY <1>3, <2>1, <2>2, <2>3, <2>4, <2>5 DEF f
  <2>7. x \in S
    BY <1>5, <2>6 DEF BackedFrames
  <2> HIDE DEF S, k
  <2> QED BY <2>5, <2>7
<1>9. stack' = [stack EXCEPT ![t] = s \o <<k>>]
  BY <1>5 DEF Goto, SetTop
<1>10. s \o <<k>> \in Seq(S)
  <2> HIDE DEF s, k, S
  <2> QED BY <1>7, <1>8, PushType
<1>11. PICK w : w = s \o <<k>>
  OBVIOUS
<1>12. w \in Seq(BackedFrames(Handler(t), client[t].uri))' /\ stack' = [stack EXCEPT ![t] = w]
  <2>1. w \in Seq(S) /\ stack' = [stack EXCEPT ![t] = w]
    BY <1>9, <1>10, <1>11
  <2> QED
    BY <1>4, <2>1
<1> QED
  BY <1>1, <1>2, <1>6, <1>12, BackedStep

LEMMA ReturnBacked ==
  ASSUME TypeInv, BackedInv, NEW t \in Threads, ReturnToClient(t) \/ ReturnToUpdate(t)
  PROVE  BackedInv'
<1> DEFINE h == Handler(t)
           S == BackedFrames(h, client[t].uri)
           r == Top(t).response
<1>1. stack[t] # <<>> /\ Top(t) \in S /\ UNCHANGED <<disk, dirs, client>>
      /\ h \in Handlers /\ Front(stack[t]) \in Seq(S)
  BY BackedTop, HandlerType DEF ReturnToClient, ReturnToUpdate, Processing, AtPc, TypeInv
<1>2. CASE ReturnToClient(t)
  <2>1. stack' = [stack EXCEPT ![t] = <<>>] /\ <<>> \in Seq(S)
    BY <1>2 DEF ReturnToClient
  <2>2. \A g \in Handlers, p \in Paths : cache'[g][p].here => cache[g][p].here \/ Backed(p)
    BY <1>2 DEF ReturnToClient
  <2> QED
    BY <1>1, <2>1, <2>2, BackedStack
<1>3. CASE ReturnToUpdate(t)
  <2> DEFINE below == Front(stack[t])
             f == Last(below)
             pc == Updated(r)
             g == [f EXCEPT !.pc = pc]
  <2>1. below \in Seq(S) /\ below # <<>>
    <3>1. stack[t] \in Seq(S) /\ Len(stack[t]) > 1
      BY <1>3 DEF ReturnToUpdate, Processing, BackedInv, StacksBacked
    <3>2. below \in Seq(S) /\ Len(below) = Len(stack[t]) - 1
      BY <1>1, <3>1, PopType
    <3> QED
      BY <3>1, <3>2
  <2>2. f \in S /\ Front(below) \in Seq(S)
    BY <2>1, PopType
  <2>3. pc \in {"read", "fetch"}
    BY DEF Updated
  <2>4. g \in S
    <3> HIDE DEF f, pc
    <3>1. g \in Frames
      BY <2>2, <2>3, GotoOK DEF BackedFrames
    <3>2. /\ g.uri = f.uri /\ g.path = f.path /\ g.pc = pc /\ g.response = f.response
          /\ g.if_none_match = f.if_none_match
      BY <2>2 DEF BackedFrames, Frames, FrameType
    <3> HIDE DEF g
    <3> QED BY <2>2, <2>3, <3>1, <3>2 DEF BackedFrames
  <2>5. stack' = [stack EXCEPT ![t] = Front(below) \o <<g>>]
    BY <1>3 DEF ReturnToUpdate
  <2>6. Front(below) \o <<g>> \in Seq(S)
    <3> HIDE DEF below, g, S
    <3> QED BY <2>2, <2>4, PushType
  <2>7. f.path = Top(t).path /\ f.path \in Paths
    BY <1>1, <2>2 DEF BackedFrames, Frames, FrameType
  <2>8. \/ cache' = cache
        \/ /\ cache' = [cache EXCEPT ![h][f.path] = Entry(r.expiration, r.e_tag)]
           /\ r.code = 304
    BY <1>3 DEF ReturnToUpdate
  <2>9. \A i \in Handlers, p \in Paths : cache'[i][p].here => cache[i][p].here \/ Backed(p)
    <3>1. r.code = 304 => Backed(f.path)
      BY <1>1, <2>7 DEF BackedFrames
    <3> DEFINE q == f.path
               e == Entry(r.expiration, r.e_tag)
    <3>2. /\ h \in Handlers /\ q \in Paths /\ cache \in [Handlers -> [Paths -> EntryType]]
          /\ cache' = cache \/ (cache' = [cache EXCEPT ![h][q] = e] /\ Backed(q))
      BY <1>1, <2>7, <2>8, <3>1 DEF TypeInv, TypeOK
    <3> HIDE DEF h, q, e
    <3> QED BY <3>2
  <2> HIDE DEF g, below
  <2> QED
    BY <1>1, <2>5, <2>6, <2>9, BackedStack
<1> QED
  BY <1>2, <1>3

\* A step that leaves the files, the map and the stacks as they are.
LEMMA StillBacked ==
  ASSUME BackedInv, UNCHANGED <<cache, disk, dirs, client, stack>>
  PROVE  BackedInv'
BY DEF BackedInv, FilesApart, StacksBacked, EntriesBacked, BackedFrames, Backed, Exists,
       Clash, FilesAbove, Handler

LEMMA ArriveBacked ==
  ASSUME TypeInv, BackedInv, NEW t \in Threads, Arrive(t) PROVE BackedInv'
<1>1. PICK h \in Handlers, uri \in Uris :
        /\ client' = [client EXCEPT ![t] = [h |-> h, uri |-> uri, arrived |-> clock]]
        /\ stack' = [stack EXCEPT ![t] = <<Frame(h, uri, NoTag)>>]
  BY DEF Arrive
<1>2. UNCHANGED <<cache, disk, dirs>>
  BY DEF Arrive
<1> DEFINE k == Frame(h, uri, NoTag)
<1>3. /\ k \in Frames /\ k.uri = Strip(h, uri) /\ k.path = PathOf(k.uri) /\ k.pc = "find"
      /\ k.response = NoResponse /\ k.if_none_match = NoTag
  BY FrameOK DEF Frame
<1>4. FilesApart' /\ EntriesBacked'
  BY <1>2 DEF BackedInv, FilesApart, EntriesBacked, Backed, Exists, Clash, FilesAbove
<1>5. /\ \A u \in Threads \ {t} : client'[u] = client[u] /\ stack'[u] = stack[u]
      /\ stack'[t] = <<k>> /\ client'[t].h = h /\ client'[t].uri = uri
  BY <1>1 DEF TypeInv, TypeOK
<1> HIDE DEF k
<1>6. ASSUME NEW u \in Threads
      PROVE  stack'[u] \in Seq(BackedFrames(Handler(u), client[u].uri))'
  <2>1. CASE u = t
    <3>1. k \in BackedFrames(h, uri)'
      BY <1>3 DEF BackedFrames, NoResponse
    <3>2. BackedFrames(Handler(t), client[t].uri)' = BackedFrames(h, uri)'
      BY <1>5 DEF BackedFrames, Handler
    <3>3. \A T : k \in T => <<k>> \in Seq(T)
      OBVIOUS
    <3>4. stack'[t] \in Seq(BackedFrames(Handler(t), client[t].uri))'
      BY <1>5, <3>1, <3>2, <3>3, Zenon
    <3> QED
      BY <2>1, <3>4
  <2>2. CASE u # t
    <3>1. BackedFrames(Handler(u), client[u].uri)' = BackedFrames(Handler(u), client[u].uri)
      BY <1>2, <1>5, <2>2
         DEF BackedFrames, Handler, Backed, Exists, Clash, FilesAbove
    <3>2. stack[u] \in Seq(BackedFrames(Handler(u), client[u].uri))
      BY DEF BackedInv, StacksBacked
    <3> QED
      BY <1>5, <2>2, <3>1, <3>2
  <2> QED
    BY <2>1, <2>2
<1> QED
  BY <1>4, <1>6 DEF BackedInv, StacksBacked

LEMMA InitBacked == Init => BackedInv
<1> SUFFICES ASSUME Init PROVE BackedInv
  OBVIOUS
<1>1. FilesApart /\ EntriesBacked
  BY DEF Init, FilesApart, EntriesBacked, Exists, NoFile, Absent, Default, Entry
<1>2. StacksBacked
  BY DEF Init, StacksBacked
<1> QED
  BY <1>1, <1>2 DEF BackedInv

LEMMA NextBacked == StripsOnce /\ TypeInv /\ BackedInv /\ [Next]_vars => BackedInv'
<1> SUFFICES ASSUME StripsOnce, TypeInv, BackedInv, [Next]_vars PROVE BackedInv'
  OBVIOUS
<1>1. CASE UNCHANGED vars
  BY <1>1, StillBacked DEF vars
<1>2. CASE Next
  <2>1. CASE \/ Tick \/ MapRace
             \/ \E r \in Published : Publish(r)
             \/ \E t \in Threads : Ends(t)
    BY <2>1, EndsStep, StillBacked DEF Tick, Publish
  <2>2. ASSUME NEW t \in Threads, Find(t) PROVE BackedInv'
    <3>1. stack[t] # <<>> /\ UNCHANGED <<disk, dirs, client>>
      BY <2>2 DEF Find, AtPc
    <3>2. \A h \in Handlers, p \in Paths : cache'[h][p].here => cache[h][p].here \/ Backed(p)
      BY <2>2 DEF Find
    <3>3. PICK pc \in {"check", "fetch"} :
            Goto(t, pc) /\ (pc = "check" => cache[Handler(t)][Top(t).path].here)
      BY <2>2 DEF Find
    <3>4. pc = "check" => Backed(Top(t).path)
      <4>1. Handler(t) \in Handlers /\ Top(t).path \in Paths
        BY <3>1, TopOK, HandlerType DEF TypeInv, Frames, FrameType
      <4> QED
        BY <3>3, <4>1 DEF BackedInv, EntriesBacked
    <3> QED
      BY <3>1, <3>2, <3>3, <3>4, BackedGoto
  <2>3. ASSUME NEW t \in Threads, Arrive(t) \/ (Handle(t) /\ ~Ends(t) /\ ~Find(t))
        PROVE  BackedInv'
    BY <2>3, ArriveBacked, CheckBacked, TakeTagBacked, EraseBacked, ReadBacked, FetchingBacked,
       StoringBacked, ReturnBacked DEF Handle, Ends
  <2> QED
    BY <1>2, <2>1, <2>2, <2>3 DEF Next, Handle
<1> QED
  BY <1>1, <1>2

\* With one thread and one handler, no key two URIs share, and no URI from which
\* the prefix can be erased twice, a complete file with what the origin sends for a URI with
\* this key is behind every entry, after whatever redirects, revalidations and
\* failures (MakeCache, UpdateCache).
THEOREM EntriesHaveFiles ==
  ASSUME OneThread, OneHandler, NoAliases, StripsOnce
  PROVE  Spec => []EntryHasFile
<1>1. TypeInv /\ RightInv /\ WholeInv /\ BackedInv => EntryHasFile
  <2> SUFFICES ASSUME TypeInv, RightInv, WholeInv, BackedInv,
                      NEW h \in Handlers, NEW p \in Paths, cache[h][p].here, ~Clash(p),
                      \A t \in Threads : ~(AtPc(t, "write") /\ Top(t).path = p)
               PROVE  /\ disk[p].state = "whole"
                      /\ \E u \in Uris :
                           PathOf(u) = p /\ <<<<Origin[h], u>>, disk[p].body.of>> \in LeadsTo
    BY DEF EntryHasFile
  <2>1. disk[p].state # "none"
    BY DEF BackedInv, EntriesBacked, Backed, Exists
  <2>2. disk[p].state = "whole" /\ disk[p].body # NoBody
    BY <2>1 DEF WholeInv, FilesWhole, Writing
  <2>3. PICK g \in Handlers, u \in Uris : PathOf(u) = p /\ Serves(g, u, disk[p].body.of)
    BY <2>2 DEF RightInv, DiskRight
  <2>4. g = h
    BY DEF OneHandler
  <2> QED
    BY <2>2, <2>3, <2>4 DEF Serves
<1>2. Init => TypeInv /\ RightInv /\ WholeInv /\ BackedInv
  BY InitType, InitRight, InitWhole, InitBacked
<1>3. TypeInv /\ RightInv /\ WholeInv /\ BackedInv /\ [Next]_vars
        => (TypeInv /\ RightInv /\ WholeInv /\ BackedInv)'
  BY NextType, NextRight, NextWhole, NextBacked
<1> QED
  BY <1>1, <1>2, <1>3, PTL DEF Spec

-----------------------------------------------------------------------------
(***************************************************************************)
(* What the cache answers is within the max-age the origin granted, with   *)
(* one thread and one handler and when the origin's Cache-Control does not *)
(* change its mind: a resource's versions may all be cached, or none, and  *)
(* a 304 says max-age again, or not to store.                              *)
(*                                                                         *)
(* The invariant follows the response on its way.  What is about to be     *)
(* stored was current when it was fetched, and so is what a file holds by  *)
(* the expiration in its entry; a revalidated one has the tag of the file, *)
(* which nobody has written since; a frame that is about to read has an    *)
(* entry, which had not expired when the request arrived.                  *)
(***************************************************************************)
SteadyCaching ==
  /\ \A u \in Uris : "max-age" \in CacheControl[u] => CacheControl[u] = {"max-age"}
  /\ Revalidation \subseteq {"max-age", "other"}

\* The body was its resource's current version MaxAge before x.
Granted(body, x) ==
  /\ body \in [of: Resources, ver: Nat] /\ body.ver <= Version(body.of)
  /\ \E s \in 0..clock : x = s + MaxAge /\ CurrentAt(body.of, body.ver, s)

TagOf(body, tag) == tag \in {NoTag, body.ver}

\* x is after the arrival of t's request.
Later(t, x) == x \in Nat /\ client[t].arrived < x

\* Responses with this body may be cached.
Storable(body) == body # NoBody => "max-age" \in CacheControl[body.of[2]]

\* t may go on to read what is stored.
Usable(t, p) ==
  Exists(p) =>
    cache[Handler(t)][p].here /\ Later(t, cache[Handler(t)][p].expiration)

KnowsTag(f) ==
  f.if_none_match # NoTag /\ Exists(f.path) => f.if_none_match = disk[f.path].body.ver

StoresGranted(t, r) ==
  /\ Granted(r.body, r.expiration) /\ TagOf(r.body, r.e_tag)
  /\ Later(t, r.expiration) /\ Storable(r.body) /\ r.source = "origin"

Revalidated(t, p, r) ==
  /\ Later(t, r.expiration)
  /\ Exists(p) => Granted(disk[p].body, r.expiration) /\ TagOf(disk[p].body, r.e_tag)

CacheGranted(t, r) ==
  r.source = "cache" => Granted(r.body, r.expiration) /\ Later(t, r.expiration)

\* The innermost of t's n frames.
FrameGranted(t, n, f) ==
  /\ f.pc \in {"find", "erase", "fetch"} => KnowsTag(f)
  /\ f.pc = "find" /\ n = 2 => ~cache[Handler(t)][f.path].here
  /\ f.pc = "erase" => n = 2
  /\ f.pc \in {"check", "tag", "read"} => n = 1
  /\ f.pc \in {"check", "tag"} => cache[Handler(t)][f.path].here
  /\ f.pc = "read" => Usable(t, f.path)
  /\ f.pc \in Storing => StoresGranted(t, f.response)
  /\ f.pc = "enter" /\ Exists(f.path) => disk[f.path].body = f.response.body
  /\ f.pc = "return" /\ f.response.code = 200 /\ n = 2 => Usable(t, f.path)
  /\ f.pc = "return" /\ f.response.code = 304 =>
       n = 2 /\ (f.response.directive # "other" => Revalidated(t, f.path, f.response))
  /\ f.pc = "return" => CacheGranted(t, f.response)

\* UpdateCache is not called in the HandleRequest it calls.
Shallow(s) == s # <<>> => Len(s) <= 2 /\ s[1].if_none_match = NoTag

ThreadGranted(t) ==
  /\ client[t].arrived <= clock
  /\ Shallow(stack[t])
  /\ stack[t] # <<>> => FrameGranted(t, Len(stack[t]), Top(t))
  /\ CacheGranted(t, reply[t])

\* t is between opening the file of p and making its entry.
Replacing(t, p) == stack[t] # <<>> /\ Top(t).pc \in {"write", "enter"} /\ Top(t).path = p

EntryGranted(h, p) ==
  cache[h][p].here /\ Exists(p) =>
    /\ Granted(disk[p].body, cache[h][p].expiration)
    /\ TagOf(disk[p].body, cache[h][p].e_tag)

EntriesGranted ==
  \A h \in Handlers, p \in Paths : EntryGranted(h, p) \/ \E t \in Threads : Replacing(t, p)

FilesStorable == \A p \in Paths : Storable(disk[p].body)

PastChanges == \A r \in Resources : \A i \in 1..Len(changed[r]) : changed[r][i] <= clock

GrantedInv ==
  /\ PastChanges /\ FilesStorable /\ EntriesGranted
  /\ \A t \in Threads : ThreadGranted(t)

\* Redirects lead to one resource, or to none.
LEMMA LeadsToOne ==
  ASSUME NEW r, NEW s1, NEW s2, <<r, s1>> \in LeadsTo, <<r, s2>> \in LeadsTo
  PROVE  s1 = s2
<1> DEFINE T == {x \in Resources : <<x, s1>> \in LeadsTo}
<1>1. /\ r \in Resources /\ s1 \in Resources \ DOMAIN Redirect
      /\ s2 \in Resources \ DOMAIN Redirect
      /\ \A S \in SUBSET Resources : r \in S /\ GoesOn(S) => s2 \in S
  BY DEF LeadsTo
<1>2. ASSUME NEW x \in T, x \in DOMAIN Redirect, NEW o \in Origins,
             Redirect[x].host = o \/ (Redirect[x].host = "same" /\ x[1] = o)
      PROVE  <<o, Redirect[x].uri>> \in T
  <2> DEFINE y == <<o, Redirect[x].uri>>
  <2>1. y \in Resources /\ x \in Resources /\ x # s1
    BY <1>1, <1>2, RedirectAssumption, ResourceType
  <2>2. ASSUME NEW S \in SUBSET Resources, y \in S, GoesOn(S)
        PROVE  s1 \in S
    <3>1. GoesOn(S \cup {x})
      <4> SUFFICES ASSUME NEW z \in (S \cup {x}) \cap DOMAIN Redirect, NEW q \in Origins,
                          Redirect[z].host = q \/ (Redirect[z].host = "same" /\ z[1] = q)
                   PROVE  <<q, Redirect[z].uri>> \in S \cup {x}
        BY DEF GoesOn
      <4>1. CASE z \in S
        BY <2>2, <4>1 DEF GoesOn
      <4>2. CASE z = x
        <5>1. q = o
          BY <1>2, <4>2, RedirectAssumption
        <5> QED
          BY <2>2, <4>2, <5>1
      <4> QED
        BY <4>1, <4>2
    <3>2. S \cup {x} \in SUBSET Resources /\ x \in S \cup {x}
      BY <2>1, <2>2
    <3>3. <<x, s1>> \in LeadsTo
      BY <1>2
    <3>4. s1 \in S \cup {x}
      BY <3>1, <3>2, <3>3 DEF LeadsTo
    <3> QED
      BY <2>1, <3>4
  <2>3. <<y, s1>> \in LeadsTo
    <3> HIDE DEF y
    <3> QED BY <1>1, <2>1, <2>2 DEF LeadsTo
  <2> QED
    BY <2>1, <2>3
<1>3. GoesOn(T)
  BY <1>2 DEF GoesOn
<1>4. <<s2, s1>> \in LeadsTo
  BY <1>1, <1>3
<1>5. GoesOn({s2})
  BY <1>1 DEF GoesOn
<1> QED
  BY <1>1, <1>4, <1>5 DEF LeadsTo

\* What is current now is granted MaxAge from now.
LEMMA GrantedNow ==
  ASSUME TypeOK, PastChanges, NEW body \in [of: Resources, ver: Nat],
         body.ver = Version(body.of)
  PROVE  Granted(body, clock + MaxAge)
<1> DEFINE v == body.ver
           c == changed[body.of]
<1>1. c \in Seq(Nat) /\ v = Len(c) /\ clock \in Nat /\ body.of \in Resources
  BY DEF TypeOK, Version
<1>2. v = 0 \/ c[v] <= clock
  <2>1. \A i \in 1..Len(c) : c[i] <= clock
    BY <1>1 DEF PastChanges
  <2>2. Len(c) \in Nat
    BY <1>1
  <2> QED
    BY <1>1, <2>1, <2>2
<1>3. CurrentAt(body.of, body.ver, clock)
  BY <1>1, <1>2 DEF CurrentAt
<1>4. clock \in 0..clock /\ body.ver <= Version(body.of)
  BY <1>1 DEF Version
<1> QED
  BY <1>3, <1>4 DEF Granted

\* Time passes and versions appear, those there are remain.
Ages ==
  /\ clock <= clock'
  /\ \A r \in Resources :
       /\ Len(changed[r]) <= Len(changed'[r])
       /\ \A i \in 1..Len(changed[r]) : changed'[r][i] = changed[r][i]
       /\ \A i \in (Len(changed[r]) + 1)..Len(changed'[r]) : clock <= changed'[r][i]

LEMMA GrantedStays ==
  ASSUME TypeOK, TypeOK', Ages, NEW body, NEW x, Granted(body, x)
  PROVE  Granted(body, x)'
<1> DEFINE r == body.of
           v == body.ver
<1>1. r \in Resources /\ v \in Nat /\ v <= Len(changed[r]) /\ body \in [of: Resources, ver: Nat]
  BY DEF Granted, Version
<1>2. PICK s \in 0..clock : x = s + MaxAge /\ CurrentAt(r, v, s)
  BY DEF Granted
<1>3. clock \in Nat /\ clock' \in Nat /\ clock <= clock'
      /\ Len(changed[r]) \in Nat /\ Len(changed'[r]) \in Nat
      /\ changed[r] \in Seq(Nat) /\ changed'[r] \in Seq(Nat)
  BY <1>1 DEF TypeOK, Ages
<1>4. s \in 0..clock'
  BY <1>3
<1>5. /\ Len(changed[r]) <= Len(changed'[r])
      /\ \A i \in 1..Len(changed[r]) : changed'[r][i] = changed[r][i]
      /\ \A i \in (Len(changed[r]) + 1)..Len(changed'[r]) : clock <= changed'[r][i]
  BY <1>1 DEF Ages
<1>6. v = 0 \/ changed'[r][v] <= s
  <2>1. v = 0 \/ changed[r][v] <= s
    BY <1>2 DEF CurrentAt
  <2>2. v # 0 => v \in 1..Len(changed[r])
    BY <1>1, <1>3
  <2> QED
    BY <1>5, <2>1, <2>2
<1>7. v = Len(changed'[r]) \/ s <= changed'[r][v + 1]
  <2>1. CASE v = Len(changed[r]) /\ v # Len(changed'[r])
    <3>1. v + 1 \in (Len(changed[r]) + 1)..Len(changed'[r])
      BY <1>3, <1>5, <2>1
    <3>2. changed'[r][v + 1] \in Nat /\ clock <= changed'[r][v + 1]
      BY <1>1, <1>3, <1>5, <3>1
    <3> QED
      BY <1>3, <3>2
  <2>2. CASE v # Len(changed[r])
    <3>1. v + 1 \in 1..Len(changed[r]) /\ s <= changed[r][v + 1]
      BY <1>1, <1>2, <1>3, <2>2 DEF CurrentAt
    <3> QED
      BY <1>5, <3>1
  <2> QED
    BY <2>1, <2>2
<1>8. CurrentAt(r, v, s)'
  BY <1>6, <1>7 DEF CurrentAt
<1>9. v <= Len(changed'[r])
  BY <1>1, <1>3, <1>5
<1> QED
  BY <1>1, <1>2, <1>4, <1>8, <1>9 DEF Granted, Version

-----------------------------------------------------------------------------
(***************************************************************************)
(* Steps of the thread.                                                    *)
(***************************************************************************)
\* What the proof of a step of t is about.
StepInv == TypeInv /\ RightInv /\ WholeInv /\ BackedInv /\ GrantedInv

\* The clock stands still in a step of the thread.
LEMMA GrantedSame ==
  ASSUME UNCHANGED <<clock, changed>>, NEW body, NEW x
  PROVE  Granted(body, x)' = Granted(body, x)
BY DEF Granted, Version, CurrentAt

LEMMA ThreadStep ==
  ASSUME OneThread, GrantedInv, NEW t \in Threads, UNCHANGED <<clock, changed>>,
         FilesStorable', EntriesGranted', ThreadGranted(t)'
  PROVE  GrantedInv'
<1>1. \A u \in Threads : u = t
  BY DEF OneThread
<1>2. PastChanges'
  BY DEF GrantedInv, PastChanges
<1> QED
  BY <1>1, <1>2 DEF GrantedInv

\* A frame is granted as before when nothing it depends on changes.
LEMMA FrameGrantedSame ==
  ASSUME UNCHANGED <<clock, changed, cache, disk, client>>, NEW t, NEW n, NEW f,
         FrameGranted(t, n, f)
  PROVE  FrameGranted(t, n, f)'
<1>1. \A body, x : Granted(body, x)' = Granted(body, x)
  BY GrantedSame
<1>2. \A x : Later(t, x)' = Later(t, x)
  BY DEF Later
<1>3. Usable(t, f.path)' = Usable(t, f.path) /\ KnowsTag(f)' = KnowsTag(f)
  BY <1>2 DEF Usable, KnowsTag, Exists, Handler
<1>4. StoresGranted(t, f.response)' = StoresGranted(t, f.response)
  BY <1>1, <1>2 DEF StoresGranted
<1>5. Revalidated(t, f.path, f.response)' = Revalidated(t, f.path, f.response)
  BY <1>1, <1>2 DEF Revalidated, Exists
<1>6. CacheGranted(t, f.response)' = CacheGranted(t, f.response)
  BY <1>1, <1>2 DEF CacheGranted
<1>7. (cache[Handler(t)][f.path].here)' = cache[Handler(t)][f.path].here
      /\ Exists(f.path)' = Exists(f.path) /\ (disk[f.path].body)' = disk[f.path].body
  BY DEF Handler, Exists
<1> QED
  BY <1>3, <1>4, <1>5, <1>6, <1>7 DEF FrameGranted

LEMMA ReplyGrantedSame ==
  ASSUME UNCHANGED <<clock, changed, client, reply>>, NEW t, CacheGranted(t, reply[t])
  PROVE  CacheGranted(t, reply[t])'
<1>1. PICK r : r = reply[t]
  OBVIOUS
<1>2. Granted(r.body, r.expiration)' = Granted(r.body, r.expiration)
  BY GrantedSame
<1>3. r = reply[t]'
  BY <1>1
<1> QED
  BY <1>1, <1>2, <1>3 DEF CacheGranted, Later

\* The stack is no deeper, and UpdateCache's frame where it was.
LEMMA ShallowStays ==
  ASSUME TypeInv, NEW t \in Threads, stack[t] # <<>>, Shallow(stack[t]),
         NEW f \in Frames, SetTop(t, f), f.if_none_match = Top(t).if_none_match
  PROVE  Shallow(stack'[t]) /\ stack'[t] # <<>> /\ Last(stack'[t]) = f
         /\ Len(stack'[t]) = Len(stack[t])
<1> DEFINE s == stack[t]
           u == stack'[t]
<1>1. s \in Seq(Frames) /\ stack = [w \in Threads |-> stack[w]]
  BY DEF TypeInv, StackOK
<1>2. /\ u \in Seq(Frames) /\ u # <<>> /\ Last(u) = f /\ Len(u) = Len(s)
      /\ \A i \in 1..(Len(s) - 1) : u[i] = s[i]
  BY <1>1, SetTopTop
<1>3. Len(s) \in Nat /\ Len(s) # 0 /\ Len(s) <= 2 /\ s[1].if_none_match = NoTag
  BY <1>1 DEF Shallow
<1>4. u[1].if_none_match = NoTag
  <2>1. CASE Len(s) = 1
    BY <1>2, <1>3, <2>1 DEF Last, Top
  <2>2. CASE Len(s) = 2
    BY <1>2, <1>3, <2>2
  <2>3. \A n \in Nat : n # 0 /\ n <= 2 => n = 1 \/ n = 2
    OBVIOUS
  <2> QED
    BY <1>3, <2>1, <2>2, <2>3, Zenon
<1> QED
  BY <1>2, <1>3, <1>4 DEF Shallow

\* Steps to and from where no file is being replaced.
LEMMA GrantedSetTop ==
  ASSUME OneThread, TypeInv, GrantedInv, NEW t \in Threads, stack[t] # <<>>,
         Top(t).pc \notin {"write", "enter"}, NEW f \in Frames, f.pc \notin {"write", "enter"},
         f.if_none_match = Top(t).if_none_match, SetTop(t, f),
         UNCHANGED <<clock, changed, cache, disk, client, reply>>,
         FrameGranted(t, Len(stack[t]), f)
  PROVE  GrantedInv'
<1>1. /\ Shallow(stack'[t]) /\ stack'[t] # <<>> /\ Last(stack'[t]) = f
      /\ Len(stack'[t]) = Len(stack[t])
  BY ShallowStays DEF GrantedInv, ThreadGranted
<1>2. FilesStorable'
  BY DEF GrantedInv, FilesStorable, Storable
<1>3. EntriesGranted'
  <2>1. \A p \in Paths, u \in Threads : ~Replacing(u, p) /\ ~Replacing(u, p)'
    BY <1>1 DEF OneThread, Replacing, Top
  <2>2. ASSUME NEW h \in Handlers, NEW p \in Paths PROVE EntryGranted(h, p)'
    <3>1. EntryGranted(h, p)
      BY <2>1 DEF GrantedInv, EntriesGranted
    <3>2. PICK b, x : b = disk[p].body /\ x = cache[h][p].expiration
      OBVIOUS
    <3>3. b = disk'[p].body /\ x = cache'[h][p].expiration /\ Granted(b, x)' = Granted(b, x)
      BY <3>2, GrantedSame
    <3> QED
      BY <3>1, <3>2, <3>3 DEF EntryGranted, Exists
  <2> QED
    BY <2>2 DEF EntriesGranted
<1>4. FrameGranted(t, Len(stack[t]), Top(t))'
  <2>1. PICK n : n = Len(stack[t])
    OBVIOUS
  <2>2. n = Len(stack'[t]) /\ Top(t)' = f
    BY <1>1, <2>1 DEF Top
  <2>3. FrameGranted(t, n, f)'
    BY <2>1, FrameGrantedSame
  <2> QED
    BY <2>2, <2>3
<1>5. CacheGranted(t, reply[t])'
  BY ReplyGrantedSame DEF GrantedInv, ThreadGranted
<1>6. ThreadGranted(t)'
  BY <1>1, <1>4, <1>5 DEF GrantedInv, ThreadGranted
<1> QED
  BY <1>2, <1>3, <1>6, ThreadStep

\* What is known of the innermost frame.
LEMMA TopFacts ==
  ASSUME StepInv, NEW t \in Threads, stack[t] # <<>>
  PROVE  /\ Top(t) \in Frames /\ FrameRight(Top(t), Handler(t))
         /\ Top(t) \in BackedFrames(Handler(t), client[t].uri)
         /\ FrameGranted(t, Len(stack[t]), Top(t))
         /\ Len(stack[t]) \in {1, 2}
         /\ Len(stack[t]) = 1 => Top(t).if_none_match = NoTag
         /\ Handler(t) \in Handlers /\ Top(t).path \in Paths /\ Top(t).uri \in Uris
         /\ Top(t).target \in Resources
<1> USE DEF StepInv
<1>1. Top(t) \in Frames
  BY TopOK DEF TypeInv
<1>2. Top(t).path \in Paths /\ Top(t).uri \in Uris /\ Top(t).target \in Resources
  BY <1>1 DEF Frames, FrameType
<1>3. FrameRight(Top(t), Handler(t))
  BY TopRight DEF RightFrames
<1>4. Top(t) \in BackedFrames(Handler(t), client[t].uri)
  BY BackedTop
<1>5. FrameGranted(t, Len(stack[t]), Top(t)) /\ Shallow(stack[t])
  BY DEF GrantedInv, ThreadGranted
<1>6. Len(stack[t]) \in {1, 2} /\ (Len(stack[t]) = 1 => Top(t).if_none_match = NoTag)
  <2> DEFINE n == Len(stack[t])
  <2>1. n \in Nat /\ n # 0
    BY DEF TypeInv, StackOK
  <2>2. n <= 2 /\ stack[t][1].if_none_match = NoTag
    BY <1>5 DEF Shallow
  <2>3. n \in {1, 2}
    <3> HIDE DEF n
    <3> QED BY <2>1, <2>2
  <2>4. n = 1 => Top(t) = stack[t][1]
    BY DEF Top, Last
  <2> QED
    BY <2>2, <2>3, <2>4
<1>7. Handler(t) \in Handlers
  BY HandlerType DEF TypeInv
<1> QED
  BY <1>1, <1>2, <1>3, <1>4, <1>5, <1>6, <1>7

\* A frame that goes on.
LEMMA GotoFields ==
  ASSUME NEW f \in Frames, NEW pc
  PROVE  LET g == [f EXCEPT !.pc = pc]
         IN  /\ g.pc = pc /\ g.uri = f.uri /\ g.path = f.path /\ g.target = f.target
             /\ g.if_none_match = f.if_none_match /\ g.response = f.response
BY DEF Frames, FrameType

LEMMA FindGranted ==
  ASSUME OneThread, StepInv, NEW t \in Threads, Find(t) PROVE GrantedInv'
<1> DEFINE f == Top(t)
           n == Len(stack[t])
<1>1. /\ stack[t] # <<>> /\ f.pc = "find"
      /\ UNCHANGED <<clock, changed, cache, disk, client, reply>>
  BY DEF Find, AtPc
<1>2. f \in Frames /\ FrameGranted(t, n, f) /\ n \in {1, 2}
  BY <1>1, TopFacts
<1>3. PICK pc \in {"check", "fetch"} :
        Goto(t, pc) /\ (pc = "check" => cache[Handler(t)][f.path].here)
  BY DEF Find
<1> DEFINE g == [f EXCEPT !.pc = pc]
<1>4. g \in Frames
  BY <1>2, GotoOK
<1>5. g.pc = pc /\ g.path = f.path /\ g.if_none_match = f.if_none_match
  BY <1>2, GotoFields
<1>6. SetTop(t, g)
  BY <1>3 DEF Goto
<1>7. PICK h : h = g
  OBVIOUS
<1> HIDE DEF g, n
<1>8. FrameGranted(t, n, h)
  BY <1>1, <1>2, <1>3, <1>5, <1>7 DEF FrameGranted, KnowsTag, Storing
<1>9. FrameGranted(t, Len(stack[t]), g)
  BY <1>7, <1>8 DEF n
<1> QED
  BY <1>1, <1>3, <1>4, <1>5, <1>6, <1>9, GrantedSetTop DEF StepInv

LEMMA CheckGranted ==
  ASSUME OneThread, StepInv, NEW t \in Threads, Check(t) PROVE GrantedInv'
<1> DEFINE h == Handler(t)
           f == Top(t)
           p == f.path
           n == Len(stack[t])
           e == At(h, p)
<1>1. /\ stack[t] # <<>> /\ f.pc = "check"
      /\ UNCHANGED <<clock, changed, disk, client, reply>>
  BY DEF Check, AtPc
<1>2. /\ f \in Frames /\ FrameGranted(t, n, f) /\ n = 1 /\ cache[h][p].here
      /\ h \in Handlers /\ p \in Paths
  <2>1. FrameGranted(t, n, f) /\ f \in Frames /\ h \in Handlers /\ p \in Paths
    BY <1>1, TopFacts
  <2>2. n = 1 /\ cache[h][p].here
    BY <1>1, <2>1 DEF FrameGranted
  <2> QED
    BY <2>1, <2>2
<1>3. e = cache[h][p] /\ e \in EntryType /\ clock \in Nat /\ client[t].arrived \in Nat
      /\ client[t].arrived <= clock
  BY <1>2, EntryOK DEF At, StepInv, TypeInv, TypeOK, GrantedInv, ThreadGranted
<1>4. UNCHANGED cache
  <2>1. /\ h \in Handlers /\ p \in Paths /\ cache \in [Handlers -> [Paths -> EntryType]]
        /\ cache' = [cache EXCEPT ![h][p] = cache[h][p]]
    BY <1>2, <1>3 DEF Check, StepInv, TypeInv, TypeOK
  <2> HIDE DEF h, p
  <2> QED BY <2>1
<1>5. PICK pc \in {"tag", "read"} : Goto(t, pc) /\ (pc = "read" => ~Expired(e.expiration))
  BY DEF Check
<1>6. pc = "read" => Usable(t, p)
  <2> DEFINE x == e.expiration
  <2>1. x \in Nat \cup {NotADateTime}
    BY <1>3 DEF EntryType
  <2>2. ASSUME pc = "read" PROVE x \in Nat /\ client[t].arrived < x
    <3>1. x # NotADateTime /\ ~(clock >= x)
      BY <1>5, <2>2 DEF Expired
    <3> HIDE DEF x
    <3> QED BY <1>3, <2>1, <3>1
  <2> QED
    BY <1>2, <1>3, <2>2 DEF Usable, Later
<1> DEFINE g == [f EXCEPT !.pc = pc]
<1>7. g \in Frames /\ SetTop(t, g)
  BY <1>2, <1>5, GotoOK DEF Goto
<1>8. g.pc = pc /\ g.path = p /\ g.if_none_match = f.if_none_match
  BY <1>2, GotoFields
<1>9. PICK k : k = g
  OBVIOUS
<1> HIDE DEF g, n
<1>10. FrameGranted(t, n, k)
  BY <1>2, <1>5, <1>6, <1>8, <1>9 DEF FrameGranted, Storing
<1>11. FrameGranted(t, Len(stack[t]), g)
  BY <1>9, <1>10 DEF n
<1> QED
  BY <1>1, <1>4, <1>5, <1>7, <1>8, <1>11, GrantedSetTop DEF StepInv

\* The request has the tag that belongs to the file, if any.
LEMMA TakeTagGranted ==
  ASSUME OneThread, StripsOnce, StepInv, NEW t \in Threads, TakeTag(t) PROVE GrantedInv'
<1> DEFINE h == Handler(t)
           f == Top(t)
           p == f.path
           e == At(h, p)
           g == [f EXCEPT !.pc = "updating"]
           k == [Frame(h, f.uri, e.e_tag) EXCEPT !.pc = "erase"]
<1>1. /\ stack[t] # <<>> /\ f.pc = "tag"
      /\ UNCHANGED <<clock, changed, disk, client, reply>>
  BY DEF TakeTag, AtPc
<1>2. /\ f \in Frames /\ Len(stack[t]) = 1 /\ f.if_none_match = NoTag /\ cache[h][p].here
      /\ h \in Handlers /\ p \in Paths /\ f.uri \in Uris
      /\ f \in BackedFrames(h, client[t].uri)
  <2>1. Len(stack[t]) = 1 /\ cache[h][p].here
    BY <1>1, TopFacts DEF FrameGranted
  <2> QED
    BY <1>1, <2>1, TopFacts
<1>3. e = cache[h][p] /\ e \in EntryType
  BY <1>2, EntryOK DEF At, StepInv, TypeInv
<1>4. UNCHANGED cache
  <2>1. /\ h \in Handlers /\ p \in Paths /\ cache \in [Handlers -> [Paths -> EntryType]]
        /\ cache' = [cache EXCEPT ![h][p] = cache[h][p]]
    BY <1>2, <1>3 DEF TakeTag, StepInv, TypeInv, TypeOK
  <2> HIDE DEF h, p
  <2> QED BY <2>1
<1>5. g \in Frames /\ g.if_none_match = NoTag
  BY <1>2, GotoOK, GotoFields
<1>6. k \in Frames /\ k.path = p /\ k.pc = "erase" /\ k.if_none_match = e.e_tag
  <2>1. f.uri = Strip(h, client[t].uri) /\ p = PathOf(f.uri) /\ client[t].uri \in Uris
    BY <1>2, HandlerType DEF BackedFrames, StepInv, TypeInv
  <2> DEFINE uri == f.uri
             tag == e.e_tag
  <2>2. /\ h \in Handlers /\ uri \in Uris /\ tag \in Nat \cup {NoTag}
        /\ k = [Frame(h, uri, tag) EXCEPT !.pc = "erase"]
        /\ Strip(h, uri) = uri /\ p = PathOf(uri)
    BY <1>2, <1>3, <2>1 DEF StripsOnce, EntryType
  <2> HIDE DEF uri, tag, k, h
  <2>3. k \in Frames /\ k.path = PathOf(uri) /\ k.pc = "erase" /\ k.if_none_match = tag
    BY <2>2, UpdateOK
  <2> QED
    BY <2>2, <2>3 DEF tag
<1>7. stack'[t] = <<g, k>>
  <2>1. stack'[t] = Front(stack[t]) \o <<g, k>>
    BY DEF TakeTag, StepInv, TypeInv, TypeOK
  <2>2. stack[t] \in Seq(Frames)
    BY DEF StepInv, TypeInv, StackOK
  <2>3. Front(stack[t]) = <<>>
    BY <1>2, <2>2 DEF Front
  <2> HIDE DEF g, k
  <2> QED BY <1>5, <1>6, <2>1, <2>3
<1> HIDE DEF g, k
<1>8. Len(stack'[t]) = 2 /\ Last(stack'[t]) = k /\ stack'[t] # <<>> /\ Shallow(stack'[t])
  BY <1>5, <1>7 DEF Last, Shallow
<1>9. \A i \in Handlers, q \in Paths : EntryGranted(i, q)
  BY <1>1 DEF Replacing, OneThread, StepInv, GrantedInv, EntriesGranted
<1>10. EntriesGranted'
  <2>1. ASSUME NEW i \in Handlers, NEW q \in Paths PROVE EntryGranted(i, q)'
    <3>1. PICK b, x : b = disk[q].body /\ x = cache[i][q].expiration
      OBVIOUS
    <3>2. b = disk'[q].body /\ x = cache'[i][q].expiration /\ Granted(b, x)' = Granted(b, x)
      BY <1>1, <1>4, <3>1, GrantedSame
    <3> QED
      BY <1>1, <1>4, <1>9, <3>1, <3>2 DEF EntryGranted, Exists
  <2> QED
    BY <2>1 DEF EntriesGranted
<1>11. PICK m, q : m = 2 /\ q = k
  OBVIOUS
<1>12. FrameGranted(t, m, q)'
  <2>1. q.pc = "erase" /\ q.path = p /\ q.if_none_match = e.e_tag
    BY <1>6, <1>11
  <2>2. Exists(p) => TagOf(disk[p].body, e.e_tag)
    BY <1>2, <1>3, <1>9 DEF EntryGranted
  <2>3. KnowsTag(q)'
    BY <1>1, <2>1, <2>2 DEF KnowsTag, TagOf, Exists
  <2> QED
    BY <1>11, <2>1, <2>3 DEF FrameGranted, Storing
<1>13. ThreadGranted(t)'
  <2>1. Len(stack[t])' = m /\ Top(t)' = q
    BY <1>8, <1>11 DEF Top
  <2>2. FrameGranted(t, Len(stack[t]), Top(t))'
    BY <1>12, <2>1
  <2>3. CacheGranted(t, reply[t])'
    BY <1>1, ReplyGrantedSame DEF StepInv, GrantedInv, ThreadGranted
  <2>4. (client[t].arrived <= clock)'
    BY <1>1 DEF StepInv, GrantedInv, ThreadGranted
  <2> QED
    BY <1>8, <2>2, <2>3, <2>4 DEF ThreadGranted
<1>14. FilesStorable'
  BY <1>1 DEF StepInv, GrantedInv, FilesStorable, Storable
<1> QED
  BY <1>1, <1>10, <1>13, <1>14, ThreadStep DEF StepInv

\* What is erased is the entry of the request's own path.
LEMMA EraseGranted ==
  ASSUME OneThread, StepInv, NEW t \in Threads, Erase(t) PROVE GrantedInv'
<1> DEFINE h == Handler(t)
           f == Top(t)
           p == f.path
           g == [f EXCEPT !.pc = "find"]
<1>1. /\ stack[t] # <<>> /\ f.pc = "erase"
      /\ UNCHANGED <<clock, changed, disk, client, reply>>
  BY DEF Erase, AtPc
<1>2. /\ f \in Frames /\ h \in Handlers /\ p \in Paths
      /\ f \in BackedFrames(h, client[t].uri) /\ Len(stack[t]) = 2 /\ KnowsTag(f)
  <2>1. Len(stack[t]) = 2 /\ KnowsTag(f)
    BY <1>1, TopFacts DEF FrameGranted
  <2> QED
    BY <1>1, <2>1, TopFacts
<1>3. Last(Front(stack[t])).path = p
  <2> DEFINE S == BackedFrames(h, client[t].uri)
             s == Front(stack[t])
  <2>1. s \in Seq(S) /\ s # <<>>
    <3> DEFINE w == stack[t]
    <3>1. w \in Seq(S) /\ w # <<>> /\ Len(w) = 2
      BY <1>1, <1>2 DEF StepInv, BackedInv, StacksBacked
    <3> HIDE DEF S, w
    <3>2. Front(w) \in Seq(S) /\ Len(Front(w)) = Len(w) - 1
      BY <3>1, PopType
    <3>3. Len(Front(w)) # Len(<<>>)
      BY <3>1, <3>2
    <3>4. Front(w) # <<>>
      BY <3>3, Zenon
    <3> QED
      BY <3>2, <3>4 DEF w
  <2>2. Last(s) \in S
    <3> HIDE DEF S, s
    <3> QED BY <2>1, PopType
  <2> QED
    BY <1>2, <2>2 DEF BackedFrames
<1>4. /\ ~cache'[h][p].here
      /\ \A i \in Handlers, q \in Paths : cache'[i][q] = cache[i][q] \/ ~cache'[i][q].here
  <2>1. /\ h \in Handlers /\ p \in Paths /\ cache \in [Handlers -> [Paths -> EntryType]]
        /\ cache' = [cache EXCEPT ![h][p] = Absent]
    BY <1>2, <1>3 DEF Erase, StepInv, TypeInv, TypeOK
  <2>2. ~Absent.here
    BY DEF Absent, Default, Entry
  <2> HIDE DEF h, p
  <2>3. cache'[h][p] = Absent
        /\ \A i \in Handlers, q \in Paths : cache'[i][q] = cache[i][q] \/ cache'[i][q] = Absent
    BY <2>1
  <2>4. /\ ~cache'[h][p].here
        /\ \A i \in Handlers, q \in Paths : cache'[i][q] = cache[i][q] \/ ~cache'[i][q].here
    BY <2>2, <2>3, Zenon
  <2> QED
    BY <2>4 DEF h, p
<1>5. g \in Frames /\ SetTop(t, g)
  BY <1>2, GotoOK DEF Erase, Goto
<1>6. g.pc = "find" /\ g.path = p /\ g.if_none_match = f.if_none_match
  BY <1>2, GotoFields
<1> HIDE DEF g
<1>7. /\ Shallow(stack'[t]) /\ stack'[t] # <<>> /\ Last(stack'[t]) = g
      /\ Len(stack'[t]) = 2
  <2>1. Shallow(stack[t])
    BY DEF StepInv, GrantedInv, ThreadGranted
  <2> QED
    BY <1>1, <1>2, <1>5, <1>6, <2>1, ShallowStays DEF StepInv
<1>8. \A i \in Handlers, q \in Paths : EntryGranted(i, q)
  BY <1>1 DEF Replacing, OneThread, StepInv, GrantedInv, EntriesGranted
<1>9. EntriesGranted'
  <2>1. ASSUME NEW i \in Handlers, NEW q \in Paths PROVE EntryGranted(i, q)'
    <3>1. PICK b, e1, e2 : b = disk[q].body /\ e1 = cache[i][q] /\ e2 = cache'[i][q]
      OBVIOUS
    <3>2. b = disk'[q].body /\ Granted(b, e1.expiration)' = Granted(b, e1.expiration)
      BY <1>1, <3>1, GrantedSame
    <3>3. e2 = e1 \/ ~e2.here
      BY <1>4, <3>1
    <3>4. e1.here /\ Exists(q) => Granted(b, e1.expiration) /\ TagOf(b, e1.e_tag)
      BY <1>8, <3>1 DEF EntryGranted
    <3>5. e2.here /\ Exists(q) => Granted(b, e2.expiration)' /\ TagOf(b, e2.e_tag)
      BY <3>2, <3>3, <3>4
    <3>6. Exists(q)' = Exists(q)
      BY <1>1 DEF Exists
    <3> QED
      BY <3>1, <3>2, <3>5, <3>6 DEF EntryGranted
  <2> QED
    BY <2>1 DEF EntriesGranted
<1>10. PICK m, k, i : m = 2 /\ k = g /\ i = h
  OBVIOUS
<1>11. FrameGranted(t, m, k)'
  <2>1. k.pc = "find" /\ k.path = p /\ k.if_none_match = f.if_none_match
    BY <1>6, <1>10
  <2>2. KnowsTag(k)'
    BY <1>1, <1>2, <2>1 DEF KnowsTag, Exists
  <2>3. i = Handler(t)' /\ ~cache'[i][k.path].here
    BY <1>1, <1>4, <1>10, <2>1 DEF Handler
  <2>4. ~(cache[Handler(t)][k.path].here)'
    BY <2>3
  <2> QED
    BY <1>10, <2>1, <2>2, <2>4 DEF FrameGranted, Storing
<1>12. ThreadGranted(t)'
  <2>1. Len(stack[t])' = m /\ Top(t)' = k
    BY <1>7, <1>10 DEF Top
  <2>2. FrameGranted(t, Len(stack[t]), Top(t))'
    BY <1>11, <2>1
  <2>3. CacheGranted(t, reply[t])'
    BY <1>1, ReplyGrantedSame DEF StepInv, GrantedInv, ThreadGranted
  <2>4. (client[t].arrived <= clock)'
    BY <1>1 DEF StepInv, GrantedInv, ThreadGranted
  <2> QED
    BY <1>7, <2>2, <2>3, <2>4 DEF ThreadGranted
<1>13. FilesStorable'
  BY <1>1 DEF StepInv, GrantedInv, FilesStorable, Storable
<1> QED
  BY <1>1, <1>9, <1>12, <1>13, ThreadStep DEF StepInv

LEMMA ReadGranted ==
  ASSUME OneThread, StepInv, NEW t \in Threads, Read(t) PROVE GrantedInv'
<1> DEFINE h == Handler(t)
           f == Top(t)
           p == f.path
           n == Len(stack[t])
           file == disk[p]
           e == At(h, p)
<1>1. /\ stack[t] # <<>> /\ f.pc = "read"
      /\ UNCHANGED <<clock, changed, disk, client, reply>>
  BY DEF Read, AtPc
<1>2. /\ f \in Frames /\ FrameGranted(t, n, f) /\ n = 1 /\ Usable(t, p)
      /\ h \in Handlers /\ p \in Paths
  <2>1. FrameGranted(t, n, f) /\ f \in Frames /\ h \in Handlers /\ p \in Paths
    BY <1>1, TopFacts
  <2>2. n = 1 /\ Usable(t, p)
    BY <1>1, <2>1 DEF FrameGranted
  <2> QED
    BY <2>1, <2>2
<1>3. file.state \in {"none", "whole"}
  BY <1>1, <1>2 DEF StepInv, WholeInv, FilesWhole, Writing, AtPc, OneThread
<1>4. CASE ~Readable(p)
  <2> DEFINE g == [f EXCEPT !.pc = "spin"]
  <2>1. SetTop(t, g) /\ UNCHANGED cache
    BY <1>4 DEF Read, Goto
  <2>2. g \in Frames /\ g.pc = "spin" /\ g.if_none_match = f.if_none_match
    BY <1>2, GotoOK, GotoFields
  <2>3. PICK k : k = g
    OBVIOUS
  <2> HIDE DEF g
  <2>4. FrameGranted(t, n, k)
    BY <2>2, <2>3 DEF FrameGranted, Storing
  <2>5. FrameGranted(t, Len(stack[t]), g)
    BY <2>3, <2>4
  <2> QED
    BY <1>1, <2>1, <2>2, <2>5, GrantedSetTop DEF StepInv
<1>5. CASE Readable(p)
  <2>1. file.state = "whole" /\ Exists(p)
    BY <1>3, <1>5 DEF Readable, Exists
  <2>2. /\ cache[h][p].here /\ Later(t, cache[h][p].expiration) /\ e = cache[h][p]
        /\ e.expiration \in Nat
    BY <1>2, <2>1 DEF Usable, At, Later
  <2>3. EntryGranted(h, p)
    BY <1>1, <1>2 DEF StepInv, GrantedInv, EntriesGranted, Replacing, OneThread
  <2>4. Granted(file.body, e.expiration) /\ Later(t, e.expiration)
    BY <2>1, <2>2, <2>3 DEF EntryGranted
  <2>5. PICK x \in Nat \cup {NotADateTime, Forever} :
          LET r == FromFile(file.code, file.body, file.state = "whole", x)
          IN  /\ x = IF e.expiration = NotADateTime THEN Forever ELSE e.expiration
              /\ r \in ResponseType /\ r.code # 304
              /\ SetTop(t, [f EXCEPT !.pc = "return", !.response = r])
              /\ cache' = [cache EXCEPT ![h][p] = e]
    BY <1>5, <2>1, ReadStored, StepInv DEF StepInv
  <2>6. x = e.expiration
    <3>1. e.expiration # NotADateTime
      <4> DEFINE y == e.expiration
      <4>1. y \in Nat
        BY <2>2
      <4> HIDE DEF y
      <4>2. y # NotADateTime
        BY <4>1 DEF NotADateTime
      <4> QED BY <4>2 DEF y
    <3> QED
      BY <2>5, <3>1
  <2>7. UNCHANGED cache
    <3>1. /\ h \in Handlers /\ p \in Paths /\ cache \in [Handlers -> [Paths -> EntryType]]
          /\ cache' = [cache EXCEPT ![h][p] = cache[h][p]]
      BY <1>2, <2>2, <2>5 DEF StepInv, TypeInv, TypeOK
    <3> HIDE DEF h, p
    <3> QED BY <3>1
  <2> DEFINE r == FromFile(file.code, file.body, file.state = "whole", x)
  <2>8. r.body = file.body /\ r.expiration = e.expiration
    BY <2>6 DEF FromFile, NoResponse
  <2>9. r \in ResponseType /\ r.code # 304
        /\ SetTop(t, [f EXCEPT !.pc = "return", !.response = r])
    BY <2>5
  <2> HIDE DEF r
  <2>10. CacheGranted(t, r)
    BY <2>4, <2>8 DEF CacheGranted
  <2> DEFINE g == [f EXCEPT !.pc = "return", !.response = r]
  <2>11. g \in Frames /\ g.pc = "return" /\ g.response = r /\ g.path = p
         /\ g.if_none_match = f.if_none_match
    <3>1. f \in Frames /\ r \in ResponseType /\ r.code # 304
      BY <1>2, <2>9
    <3> HIDE DEF f
    <3>2. g \in Frames
      BY <3>1, ReturnOK
    <3>3. /\ g.pc = "return" /\ g.response = r /\ g.path = f.path
          /\ g.if_none_match = f.if_none_match
      BY <3>1 DEF Frames, FrameType
    <3> HIDE DEF g
    <3> QED BY <3>2, <3>3
  <2>12. SetTop(t, g)
    BY <2>9
  <2>13. PICK k : k = g
    OBVIOUS
  <2> HIDE DEF g
  <2>14. FrameGranted(t, n, k)
    BY <1>2, <2>9, <2>10, <2>11, <2>13 DEF FrameGranted, Storing
  <2>15. FrameGranted(t, Len(stack[t]), g)
    BY <2>13, <2>14
  <2> QED
    BY <1>1, <2>7, <2>11, <2>12, <2>15, GrantedSetTop DEF StepInv
<1> QED
  BY <1>4, <1>5

\* A file holds a version of what a request for its path ends up with.
LEMMA StoredOf ==
  ASSUME OneThread, NoAliases, StepInv, NEW t \in Threads, AtPc(t, "fetch"),
         Top(t).target \notin DOMAIN Redirect, Exists(Top(t).path)
  PROVE  /\ disk[Top(t).path].body \in [of: Resources, ver: Nat]
         /\ disk[Top(t).path].body.of = Top(t).target
         /\ disk[Top(t).path].body # NoBody
<1> DEFINE f == Top(t)
           p == f.path
           body == disk[p].body
<1>1. stack[t] # <<>> /\ f.pc = "fetch"
  BY DEF AtPc
<1>2. /\ FrameRight(f, Handler(t)) /\ Handler(t) \in Handlers
      /\ p \in Paths /\ f.uri \in Uris /\ f.target \in Resources
  BY <1>1, TopFacts
<1>3. disk[p].state = "whole" /\ body # NoBody
  BY <1>1, <1>2
     DEF StepInv, WholeInv, FilesWhole, Writing, AtPc, OneThread, Exists
<1>4. body \in [of: Resources, ver: Nat]
  BY <1>2, <1>3 DEF StepInv, TypeInv, TypeOK, FileType, BodyType
<1>5. PICK g \in Handlers, u \in Uris : PathOf(u) = p /\ Serves(g, u, body.of)
  BY <1>2, <1>3 DEF StepInv, RightInv, DiskRight
<1>6. Serves(Handler(t), f.uri, f.target)
  BY <1>2, LeadsToSelf DEF FrameRight
<1>7. Serves(Handler(t), f.uri, body.of)
  BY <1>2, <1>4, <1>5 DEF NoAliases, FrameRight
<1> QED
  BY <1>3, <1>4, <1>6, <1>7, LeadsToOne DEF Serves

\* What a response is when it has been received.
LEMMA ReceivedFields ==
  ASSUME NEW code, NEW body, NEW d, NEW tag
  PROVE  LET r == Received(code, body, d, tag)
         IN  /\ r.code = code /\ r.body = body /\ r.directive = d /\ r.e_tag = tag
             /\ r.source = "origin"
             /\ d = "max-age" => r.expiration = clock + MaxAge
BY DEF Received, NoResponse

\* A 304 is for the version the file holds.
LEMMA RevalidatedNow ==
  ASSUME OneThread, NoAliases, StepInv, NEW t \in Threads, AtPc(t, "fetch"),
         Top(t).target \notin DOMAIN Redirect,
         NEW r, r.expiration = clock + MaxAge, r.e_tag \in {NoTag, Version(Top(t).target)},
         Top(t).if_none_match = Version(Top(t).target)
  PROVE  Revalidated(t, Top(t).path, r)
<1> DEFINE f == Top(t)
           body == disk[f.path].body
           v == Version(f.target)
<1>1. stack[t] # <<>> /\ f.pc = "fetch"
  BY DEF AtPc
<1>2. FrameGranted(t, Len(stack[t]), f) /\ f.target \in Resources
  BY <1>1, TopFacts
<1>3. v \in Nat /\ clock \in Nat /\ client[t].arrived \in Nat /\ client[t].arrived <= clock
  BY <1>2 DEF StepInv, TypeInv, TypeOK, Version, GrantedInv, ThreadGranted
<1>4. Later(t, r.expiration)
  <2>1. clock + MaxAge \in Nat /\ client[t].arrived < clock + MaxAge
    BY <1>3, ProxyBoundsAssumption
  <2> QED
    BY <2>1 DEF Later
<1>5. ASSUME Exists(f.path)
      PROVE  Granted(body, r.expiration) /\ TagOf(body, r.e_tag)
  <2>1. body \in [of: Resources, ver: Nat] /\ body.of = f.target
    BY <1>5, StoredOf
  <2>2. f.if_none_match = body.ver
    <3>1. f.if_none_match # NoTag
      BY <1>3 DEF NoTag
    <3> QED
      BY <1>1, <1>2, <1>5, <3>1 DEF FrameGranted, KnowsTag
  <2>3. body.ver = Version(body.of)
    BY <2>1, <2>2
  <2>4. Granted(body, clock + MaxAge)
    <3> HIDE DEF body
    <3> QED BY <2>1, <2>3, GrantedNow DEF StepInv, TypeInv, GrantedInv
  <2> QED
    BY <2>2, <2>4 DEF TagOf
<1> QED
  BY <1>4, <1>5 DEF Revalidated

\* What is to be stored is current.
LEMMA ReceivedNow ==
  ASSUME StepInv, NEW t \in Threads, stack[t] # <<>>, NEW b,
         b = [of |-> Top(t).target, ver |-> Version(Top(t).target)],
         "max-age" \in CacheControl[Top(t).target[2]],
         NEW r, r.body = b, r.expiration = clock + MaxAge, r.source = "origin",
         r.e_tag \in {NoTag, Version(Top(t).target)}
  PROVE  StoresGranted(t, r)
<1>1. Top(t).target \in Resources
  BY TopFacts
<1>2. /\ Version(Top(t).target) \in Nat /\ clock \in Nat
      /\ client[t].arrived \in Nat /\ client[t].arrived <= clock
  BY <1>1 DEF StepInv, TypeInv, TypeOK, Version, GrantedInv, ThreadGranted
<1>3. b \in [of: Resources, ver: Nat] /\ b.of = Top(t).target /\ b.ver = Version(b.of)
  BY <1>1, <1>2
<1>4. Granted(b, clock + MaxAge)
  BY <1>3, GrantedNow DEF StepInv, TypeInv, GrantedInv
<1>5. Later(t, r.expiration)
  <2>1. clock + MaxAge \in Nat /\ client[t].arrived < clock + MaxAge
    BY <1>2, ProxyBoundsAssumption
  <2> QED
    BY <2>1 DEF Later
<1> QED
  BY <1>3, <1>4, <1>5 DEF StoresGranted, TagOf, Storable

\* Nothing is stored for a resource that may not be stored.
LEMMA NotStored ==
  ASSUME OneThread, NoAliases, SteadyCaching, StepInv, NEW t \in Threads, AtPc(t, "fetch"),
         Top(t).target \notin DOMAIN Redirect,
         NEW d \in CacheControl[Top(t).target[2]], d # "max-age"
  PROVE  Usable(t, Top(t).path)
<1> DEFINE f == Top(t)
           body == disk[f.path].body
<1>1. f.target \in Resources /\ f.path \in Paths
  BY TopFacts DEF AtPc
<1>2. f.target[2] \in Uris
  BY <1>1, ResourceType
<1>3. ~("max-age" \in CacheControl[f.target[2]])
  BY <1>2 DEF SteadyCaching
<1>4. ~Exists(f.path)
  <2> SUFFICES ASSUME Exists(f.path) PROVE FALSE
    OBVIOUS
  <2>1. body.of = f.target /\ body # NoBody
    BY StoredOf
  <2>2. Storable(body)
    BY <1>1 DEF StepInv, GrantedInv, FilesStorable
  <2> QED
    BY <1>3, <2>1, <2>2 DEF Storable
<1> QED
  BY <1>4 DEF Usable

LEMMA FetchGranted ==
  ASSUME OneThread, NoAliases, SteadyCaching, StepInv, NEW t \in Threads, Fetch(t)
  PROVE  GrantedInv'
<1> DEFINE f == Top(t)
           n == Len(stack[t])
           v == Version(f.target)
<1>1. /\ stack[t] # <<>> /\ f.pc = "fetch" /\ AtPc(t, "fetch")
      /\ f.target \notin DOMAIN Redirect
      /\ UNCHANGED <<clock, changed, cache, disk, client, reply>>
  BY DEF Fetch, AtPc
<1>2. f \in Frames /\ n \in {1, 2} /\ (n = 1 => f.if_none_match = NoTag) /\ f.target \in Resources
  BY <1>1, TopFacts
<1>3. v \in Nat /\ v # NoTag
  BY <1>2 DEF Version, NoTag, StepInv, TypeInv, TypeOK
<1>4. PICK tag \in {NoTag, v}, code \in Codes \cup {304}, d \in Directive,
           pc \in {"open", "return"}, body \in BodyType :
        FetchedAs(t, tag, code, d, pc, body)
  BY FetchCases DEF StepInv
<1> DEFINE r == Received(code, body, d, tag)
           g == [f EXCEPT !.pc = pc, !.response = r]
<1>5. /\ r \in ResponseType /\ r.expiration # Forever
      /\ pc = "open" <=> code # 304 /\ d = "max-age"
      /\ code = 304 => d \in Revalidation /\ f.if_none_match = v
      /\ code # 304 => /\ body = [of |-> f.target, ver |-> v]
                       /\ d \in CacheControl[f.target[2]]
      /\ SetTop(t, g)
  BY <1>4 DEF FetchedAs
<1>6. /\ r.code = code /\ r.body = body /\ r.directive = d /\ r.e_tag = tag
      /\ r.source = "origin" /\ (d = "max-age" => r.expiration = clock + MaxAge)
  BY ReceivedFields
<1>7. pc = "open" => StoresGranted(t, r)
  <2> HIDE DEF r
  <2> QED BY <1>1, <1>4, <1>5, <1>6, ReceivedNow
<1>8. pc = "return" /\ code = 200 => Usable(t, f.path)
  <2> HIDE DEF r
  <2> QED BY <1>1, <1>5, NotStored
<1>9. pc = "return" /\ code = 304 =>
        n = 2 /\ (d # "other" => Revalidated(t, f.path, r))
  <2>1. code = 304 => n = 2
    BY <1>2, <1>3, <1>5
  <2>2. code = 304 /\ d # "other" => d = "max-age"
    BY <1>5 DEF SteadyCaching
  <2> HIDE DEF r
  <2>3. ASSUME code = 304, d = "max-age" PROVE Revalidated(t, f.path, r)
    BY <1>1, <1>4, <1>5, <1>6, <2>3, RevalidatedNow
  <2> QED
    BY <2>1, <2>2, <2>3
<1>10. CacheGranted(t, r)
  <2> HIDE DEF r
  <2> QED BY <1>6 DEF CacheGranted
<1>11. /\ f \in Frames /\ r \in ResponseType
       /\ pc = "open" => r.code \in Codes
       /\ r.expiration # Forever
  <2> HIDE DEF r
  <2> QED BY <1>2, <1>4, <1>5, <1>6
<1> HIDE DEF r, f
<1>12. g \in Frames
  <2>1. CASE pc = "open"
    BY <1>11, <2>1 DEF Frames, FrameType, Storing
  <2>2. CASE pc = "return"
    BY <1>11, <2>2 DEF Frames, FrameType, Storing
  <2> QED
    BY <1>4, <2>1, <2>2
<1>13. g.pc = pc /\ g.response = r /\ g.path = f.path /\ g.if_none_match = f.if_none_match
  BY <1>11 DEF Frames, FrameType
<1> HIDE DEF g, n
<1>14. PICK k : k = g
  OBVIOUS
<1>15. FrameGranted(t, n, k)
  <2>1. CASE pc = "open"
    BY <1>7, <1>13, <1>14, <2>1 DEF FrameGranted, Storing
  <2>2. CASE pc = "return"
    BY <1>6, <1>8, <1>9, <1>10, <1>13, <1>14, <2>2 DEF FrameGranted, Storing
  <2> QED
    BY <1>4, <2>1, <2>2
<1>16. /\ FrameGranted(t, Len(stack[t]), g) /\ SetTop(t, g) /\ g \in Frames
       /\ g.if_none_match = Top(t).if_none_match
       /\ g.pc \notin {"write", "enter"} /\ Top(t).pc \notin {"write", "enter"}
  BY <1>1, <1>4, <1>5, <1>12, <1>13, <1>14, <1>15 DEF n, f
<1> QED
  BY <1>1, <1>16, GrantedSetTop DEF StepInv

LEMMA FetchingGranted ==
  ASSUME OneThread, NoAliases, SteadyCaching, StepInv, NEW t \in Threads,
         FollowRedirect(t) \/ FetchFails(t) \/ Fetch(t)
  PROVE  GrantedInv'
<1> DEFINE f == Top(t)
           n == Len(stack[t])
<1>1. CASE Fetch(t)
  BY <1>1, FetchGranted
<1>2. CASE FollowRedirect(t) \/ FetchFails(t)
  <2>1. /\ stack[t] # <<>> /\ f.pc = "fetch"
        /\ UNCHANGED <<clock, changed, cache, disk, client, reply>>
    BY <1>2 DEF FollowRedirect, FetchFails, AtPc
  <2>2. f \in Frames /\ FrameGranted(t, n, f)
    BY <2>1, TopFacts
  <2>3. PICK g \in Frames :
          /\ SetTop(t, g) /\ g.if_none_match = f.if_none_match /\ g.path = f.path
          /\ g.pc = "fetch" \/ (g.pc = "return" /\ g.response = NoResponse)
    <3>1. CASE FollowRedirect(t)
      <4> DEFINE x == ParseLocation(f.target)
                 g == [f EXCEPT !.target = ParseLocation(@)]
      <4>1. x \in Resources
        BY <2>2, <3>1, ParseLocationType DEF FollowRedirect, Frames, FrameType
      <4>2. SetTop(t, g)
        BY <3>1 DEF FollowRedirect
      <4>3. g \in Frames
        <5> HIDE DEF f
        <5> QED BY <2>2, <4>1 DEF Frames, FrameType, Storing
      <4>4. g.if_none_match = f.if_none_match /\ g.path = f.path /\ g.pc = f.pc
        <5> HIDE DEF f
        <5> QED BY <2>2 DEF Frames, FrameType
      <4> HIDE DEF g
      <4> QED
        BY <2>1, <4>2, <4>3, <4>4
    <3>2. CASE FetchFails(t)
      <4> DEFINE g == [f EXCEPT !.pc = "return", !.response = NoResponse]
      <4>1. SetTop(t, g)
        BY <3>2 DEF FetchFails
      <4>2. g \in Frames
        BY <2>2, NoResponseType, ReturnOK
      <4>3. /\ g.if_none_match = f.if_none_match /\ g.path = f.path
            /\ g.pc = "return" /\ g.response = NoResponse
        <5> HIDE DEF f
        <5> QED BY <2>2 DEF Frames, FrameType
      <4> HIDE DEF g
      <4> QED
        BY <4>1, <4>2, <4>3
    <3> QED
      BY <1>2, <3>1, <3>2
  <2>4. NoResponse.code = 0 /\ NoResponse.source = "origin"
    BY DEF NoResponse
  <2> HIDE DEF n
  <2>5. FrameGranted(t, n, g)
    BY <2>1, <2>2, <2>3, <2>4 DEF FrameGranted, KnowsTag, CacheGranted, Storing
  <2>6. FrameGranted(t, Len(stack[t]), g)
    BY <2>5 DEF n
  <2> QED
    BY <2>1, <2>3, <2>6, GrantedSetTop DEF StepInv
<1> QED
  BY <1>1, <1>2

\* A file that is opened or written, or is not, and the others.
LEMMA StoredFile ==
  ASSUME StepInv, NEW t \in Threads, Open(t) \/ Write(t), NEW q \in Paths, q = Top(t).path
  PROVE  /\ cache' = cache
         /\ \A p \in Paths : p # q => disk'[p] = disk[p]
         /\ Storable(disk'[q].body)
         /\ \/ Goto(t, "write")
            \/ /\ Goto(t, "enter")
               /\ Exists(q)' => disk'[q].body = Top(t).response.body
<1> DEFINE f == Top(t)
           b == f.response.body
<1>1. stack[t] # <<>> /\ f.pc \in Storing
  BY DEF Open, Write, AtPc, Storing
<1>2. /\ FrameGranted(t, Len(stack[t]), f) /\ disk \in [Paths -> FileType]
      /\ FilesApart /\ FilesStorable
  BY <1>1, TopFacts DEF StepInv, TypeInv, TypeOK, BackedInv, GrantedInv
<1>3. Storable(b)
  BY <1>1, <1>2 DEF FrameGranted, StoresGranted
<1>4. CASE Write(t)
  <2>1. PICK state : disk' = [disk EXCEPT ![q] =
                       [state |-> state, code |-> f.response.code, body |-> b]]
    BY <1>4 DEF Write
  <2>2. disk'[q].body = b /\ \A p \in Paths : p # q => disk'[p] = disk[p]
    <3> HIDE DEF f, b
    <3> QED BY <1>2, <2>1
  <2> QED
    BY <1>3, <1>4, <2>2 DEF Write
<1>5. CASE Open(t) /\ Clash(q)
  <2>1. disk' = disk /\ ~Exists(q) /\ Goto(t, "enter") /\ cache' = cache
    BY <1>2, <1>5 DEF Open, FilesApart
  <2>2. ~Exists(q)' /\ Storable(disk'[q].body)
    BY <1>2, <2>1 DEF FilesStorable, Exists
  <2> QED
    BY <2>1, <2>2
<1>6. CASE Open(t) /\ ~Clash(q)
  <2>1. /\ disk' = [disk EXCEPT ![q] = [NoFile EXCEPT !.state = "empty"]]
        /\ Goto(t, "write") /\ cache' = cache
    BY <1>6 DEF Open
  <2>2. /\ disk'[q].body = NoBody
        /\ \A p \in Paths : p # q => disk'[p] = disk[p]
    BY <1>2, <2>1 DEF NoFile
  <2> QED
    BY <2>1, <2>2 DEF Storable
<1> QED
  BY <1>4, <1>5, <1>6

\* The stack after a step that goes on.
LEMMA GotoStack ==
  ASSUME StepInv, NEW t \in Threads, stack[t] # <<>>, Top(t).pc \in Storing,
         NEW pc \in {"write", "enter", "return"}, Goto(t, pc)
  PROVE  \E g \in Frames :
           /\ g.pc = pc /\ g.path = Top(t).path /\ g.response = Top(t).response
           /\ Top(t)' = g /\ Len(stack'[t]) = Len(stack[t])
           /\ stack'[t] # <<>> /\ Shallow(stack'[t])
<1> DEFINE f == Top(t)
           g == [f EXCEPT !.pc = pc]
<1>1. f \in Frames /\ Shallow(stack[t]) /\ TypeInv
  BY TopFacts DEF StepInv, GrantedInv, ThreadGranted
<1>2. g \in Frames /\ SetTop(t, g)
  BY <1>1, StoringOK DEF Goto
<1>3. /\ g.pc = pc /\ g.path = f.path /\ g.response = f.response
      /\ g.if_none_match = f.if_none_match
  BY <1>1, GotoFields
<1> HIDE DEF g
<1>4. /\ Shallow(stack'[t]) /\ stack'[t] # <<>> /\ Last(stack'[t]) = g
      /\ Len(stack'[t]) = Len(stack[t])
  BY <1>1, <1>2, <1>3, ShallowStays
<1>5. Top(t)' = g
  BY <1>4 DEF Top
<1> QED
  BY <1>2, <1>3, <1>4, <1>5

LEMMA OpenWriteGranted ==
  ASSUME OneThread, StepInv, NEW t \in Threads, Open(t) \/ Write(t) PROVE GrantedInv'
<1>1. /\ stack[t] # <<>> /\ Top(t).pc \in Storing /\ Top(t).pc # "enter"
      /\ UNCHANGED <<clock, changed, client, reply>>
  BY DEF Open, Write, AtPc, Storing
<1>2. PICK q, r, n : q = Top(t).path /\ r = Top(t).response /\ n = Len(stack[t])
  OBVIOUS
<1>3. q \in Paths /\ FrameGranted(t, n, Top(t))
  BY <1>1, <1>2, TopFacts
<1>4. /\ cache' = cache
      /\ \A p \in Paths : p # q => disk'[p] = disk[p]
      /\ Storable(disk'[q].body)
      /\ \/ Goto(t, "write")
         \/ Goto(t, "enter") /\ (Exists(q)' => disk'[q].body = r.body)
  BY <1>2, <1>3, StoredFile
<1>5. PICK pc \in {"write", "enter"} :
        Goto(t, pc) /\ (pc = "enter" => (Exists(q)' => disk'[q].body = r.body))
  BY <1>4
<1>6. PICK g \in Frames :
        /\ g.pc = pc /\ g.path = q /\ g.response = r
        /\ Top(t)' = g /\ Len(stack'[t]) = n /\ stack'[t] # <<>> /\ Shallow(stack'[t])
  BY <1>1, <1>2, <1>5, GotoStack
<1>7. StoresGranted(t, r)
  BY <1>1, <1>2, <1>3 DEF FrameGranted
<1>8. StoresGranted(t, r)'
  <2>1. Granted(r.body, r.expiration)' = Granted(r.body, r.expiration)
    BY <1>1, GrantedSame
  <2> QED
    BY <1>1, <1>7, <2>1 DEF StoresGranted, Later
<1>9. FrameGranted(t, n, g)'
  BY <1>5, <1>6, <1>8 DEF FrameGranted, Storing
<1>10. ThreadGranted(t)'
  <2>1. FrameGranted(t, Len(stack[t]), Top(t))'
    BY <1>6, <1>9
  <2>2. CacheGranted(t, reply[t])'
    BY <1>1, ReplyGrantedSame DEF StepInv, GrantedInv, ThreadGranted
  <2>3. (client[t].arrived <= clock)'
    BY <1>1 DEF StepInv, GrantedInv, ThreadGranted
  <2> QED
    BY <1>6, <2>1, <2>2, <2>3 DEF ThreadGranted
<1>11. FilesStorable'
  <2> SUFFICES ASSUME NEW p \in Paths PROVE Storable(disk'[p].body)
    BY DEF FilesStorable, Storable
  <2>1. CASE p = q
    BY <1>4, <2>1
  <2>2. CASE p # q
    BY <1>4, <2>2 DEF StepInv, GrantedInv, FilesStorable
  <2> QED
    BY <2>1, <2>2
<1>12. EntriesGranted'
  <2>1. ASSUME NEW h \in Handlers, NEW p \in Paths, p # q PROVE EntryGranted(h, p)'
    <3>1. EntryGranted(h, p)
      BY <1>1, <1>2, <2>1 DEF StepInv, GrantedInv, EntriesGranted, Replacing, OneThread, Storing
    <3>2. PICK b, x : b = disk[p].body /\ x = cache[h][p].expiration
      OBVIOUS
    <3>3. b = disk'[p].body /\ x = cache'[h][p].expiration /\ Granted(b, x)' = Granted(b, x)
      BY <1>1, <1>4, <2>1, <3>2, GrantedSame
    <3>4. Exists(p)' = Exists(p) /\ cache' = cache
      BY <1>4, <2>1 DEF Exists
    <3> QED
      BY <3>1, <3>2, <3>3, <3>4 DEF EntryGranted
  <2>2. Replacing(t, q)'
    BY <1>6 DEF Replacing
  <2> QED
    BY <2>1, <2>2 DEF EntriesGranted
<1> QED
  BY <1>1, <1>10, <1>11, <1>12, ThreadStep DEF StepInv

LEMMA EnterGranted ==
  ASSUME OneThread, OneHandler, StepInv, NEW t \in Threads, Enter(t) PROVE GrantedInv'
<1>1. /\ stack[t] # <<>> /\ Top(t).pc = "enter" /\ Goto(t, "return")
      /\ UNCHANGED <<clock, changed, disk, client, reply>>
  BY DEF Enter, AtPc
<1>2. PICK q, r, n, h : /\ q = Top(t).path /\ r = Top(t).response /\ n = Len(stack[t])
                        /\ h = Handler(t)
  OBVIOUS
<1>3. /\ q \in Paths /\ FrameGranted(t, n, Top(t)) /\ h \in Handlers
      /\ Top(t) \in Frames
  BY <1>1, <1>2, TopFacts
<1>4. r.code # 304
  BY <1>1, <1>2, <1>3, CodesAssumption DEF Frames, Storing
<1>5. PICK e : e = Entry(r.expiration, r.e_tag) /\ cache' = [cache EXCEPT ![h][q] = e]
  BY <1>2 DEF Enter
<1>6. cache'[h][q] = e /\ \A p \in Paths : p # q => cache'[h][p] = cache[h][p]
  BY <1>3, <1>5 DEF StepInv, TypeInv, TypeOK
<1>7. e.here /\ e.expiration = r.expiration /\ e.e_tag = r.e_tag
  BY <1>5 DEF Entry
<1>8. PICK g \in Frames :
        /\ g.pc = "return" /\ g.path = q /\ g.response = r
        /\ Top(t)' = g /\ Len(stack'[t]) = n /\ stack'[t] # <<>> /\ Shallow(stack'[t])
  BY <1>1, <1>2, GotoStack DEF Storing
<1>9. /\ StoresGranted(t, r)
      /\ Exists(q) => disk[q].body = r.body
  BY <1>1, <1>2, <1>3 DEF FrameGranted, Storing
<1>10. Usable(t, q)'
  <2>1. Handler(t)' = h
    BY <1>1, <1>2 DEF Handler
  <2>2. Later(t, e.expiration)'
    BY <1>1, <1>7, <1>9 DEF StoresGranted, Later
  <2> QED
    BY <1>6, <1>7, <2>1, <2>2 DEF Usable, Later
<1>11. FrameGranted(t, n, g)'
  <2>1. r.source = "origin"
    BY <1>9 DEF StoresGranted
  <2> QED
    BY <1>4, <1>8, <1>10, <2>1 DEF FrameGranted, CacheGranted, Storing
<1>12. ThreadGranted(t)'
  <2>1. FrameGranted(t, Len(stack[t]), Top(t))'
    BY <1>8, <1>11
  <2>2. CacheGranted(t, reply[t])'
    BY <1>1, ReplyGrantedSame DEF StepInv, GrantedInv, ThreadGranted
  <2>3. (client[t].arrived <= clock)'
    BY <1>1 DEF StepInv, GrantedInv, ThreadGranted
  <2> QED
    BY <1>8, <2>1, <2>2, <2>3 DEF ThreadGranted
<1>13. FilesStorable'
  BY <1>1 DEF StepInv, GrantedInv, FilesStorable, Storable
<1>14. EntriesGranted'
  <2> SUFFICES ASSUME NEW i \in Handlers, NEW p \in Paths PROVE EntryGranted(i, p)'
    BY DEF EntriesGranted
  <2>1. i = h
    BY <1>3 DEF OneHandler
  <2>2. PICK b, x : b = disk[p].body /\ x = cache'[h][p]
    OBVIOUS
  <2>3. b = disk'[p].body /\ Exists(p)' = Exists(p)
    BY <1>1, <2>2 DEF Exists
  <2>4. Granted(b, x.expiration)' = Granted(b, x.expiration)
    BY <1>1, GrantedSame
  <2>5. x.here /\ Exists(p) => Granted(b, x.expiration) /\ TagOf(b, x.e_tag)
    <3>1. CASE p = q
      BY <1>6, <1>7, <1>9, <2>2, <3>1 DEF StoresGranted
    <3>2. CASE p # q
      <4>1. EntryGranted(h, p)
        BY <1>1, <1>2, <1>3, <3>2 DEF StepInv, GrantedInv, EntriesGranted, Replacing, OneThread
      <4> QED
        BY <1>6, <2>2, <3>2, <4>1 DEF EntryGranted
    <3> QED
      BY <3>1, <3>2
  <2> QED
    BY <2>1, <2>2, <2>3, <2>4, <2>5 DEF EntryGranted
<1> QED
  BY <1>1, <1>12, <1>13, <1>14, ThreadStep DEF StepInv

LEMMA ReturnToClientGranted ==
  ASSUME OneThread, StepInv, NEW t \in Threads, ReturnToClient(t) PROVE GrantedInv'
<1>1. /\ stack[t] # <<>> /\ Top(t).pc = "return"
      /\ UNCHANGED <<clock, changed, cache, disk, client>>
  BY DEF ReturnToClient, AtPc
<1>2. FrameGranted(t, Len(stack[t]), Top(t))
  BY <1>1, TopFacts
<1>3. PICK r : r = Top(t).response
  OBVIOUS
<1>4. stack'[t] = <<>> /\ reply'[t] = r
  BY <1>3 DEF ReturnToClient, StepInv, TypeInv, TypeOK
<1>5. CacheGranted(t, r)
  <2> DEFINE n == Len(stack[t])
  <2> HIDE DEF n
  <2>1. FrameGranted(t, n, Top(t))
    BY <1>2 DEF n
  <2> QED
    BY <1>1, <1>3, <2>1 DEF FrameGranted
<1>6. CacheGranted(t, r)'
  <2>1. Granted(r.body, r.expiration)' = Granted(r.body, r.expiration)
    BY <1>1, GrantedSame
  <2> QED
    BY <1>1, <1>5, <2>1 DEF CacheGranted, Later
<1>7. ThreadGranted(t)'
  <2>1. CacheGranted(t, reply[t])'
    BY <1>4, <1>6
  <2>2. (client[t].arrived <= clock)'
    BY <1>1 DEF StepInv, GrantedInv, ThreadGranted
  <2> QED
    BY <1>4, <2>1, <2>2 DEF ThreadGranted, Shallow
<1>8. FilesStorable'
  BY <1>1 DEF StepInv, GrantedInv, FilesStorable, Storable
<1>9. EntriesGranted'
  <2> SUFFICES ASSUME NEW i \in Handlers, NEW p \in Paths PROVE EntryGranted(i, p)'
    BY DEF EntriesGranted
  <2>1. EntryGranted(i, p)
    BY <1>1 DEF StepInv, GrantedInv, EntriesGranted, Replacing, OneThread
  <2>2. PICK b, x : b = disk[p].body /\ x = cache[i][p].expiration
    OBVIOUS
  <2>3. b = disk'[p].body /\ x = cache'[i][p].expiration /\ Granted(b, x)' = Granted(b, x)
    BY <1>1, <2>2, GrantedSame
  <2> QED
    BY <1>1, <2>1, <2>2, <2>3 DEF EntryGranted, Exists
<1> QED
  BY <1>1, <1>7, <1>8, <1>9, ThreadStep DEF StepInv

\* UpdateCache's frame and the one of the HandleRequest it calls.
LEMMA TwoFrames ==
  ASSUME StepInv, NEW t \in Threads, Processing(t)
  PROVE  /\ Len(stack[t]) = 2
         /\ LET below == Front(stack[t])
                f == Last(below)
            IN  /\ f \in Frames /\ f.path = Top(t).path /\ f.if_none_match = NoTag
                /\ Front(below) = <<>>
<1> DEFINE s == stack[t]
           S == BackedFrames(Handler(t), client[t].uri)
           below == Front(s)
           f == Last(below)
<1>1. s # <<>> /\ Top(t).pc = "return" /\ Len(s) > 1
  BY DEF Processing, AtPc
<1>2. s \in Seq(S) /\ Top(t) \in S /\ Len(s) \in {1, 2} /\ Shallow(s)
  BY <1>1, TopFacts DEF StepInv, BackedInv, StacksBacked, GrantedInv, ThreadGranted
<1>3. Len(s) = 2
  <2>1. \A n : n \in {1, 2} /\ n > 1 => n = 2
    OBVIOUS
  <2> QED
    BY <1>1, <1>2, <2>1, Zenon
<1>4. below = <<s[1]>>
  <2>1. Front(s) = [i \in 1..1 |-> s[i]]
    BY <1>3 DEF Front
  <2> QED
    BY <2>1
<1>5. f = s[1] /\ Front(below) = <<>>
  BY <1>4 DEF Last, Front
<1>6. f \in S /\ f.if_none_match = NoTag
  BY <1>1, <1>2, <1>3, <1>5 DEF Shallow
<1>7. f \in Frames /\ f.path = Top(t).path
  <2> HIDE DEF f
  <2> QED BY <1>2, <1>6 DEF BackedFrames
<1> QED
  BY <1>3, <1>5, <1>6, <1>7

LEMMA ReturnToUpdateGranted ==
  ASSUME OneThread, StepInv, NEW t \in Threads, ReturnToUpdate(t) PROVE GrantedInv'
<1>1. /\ stack[t] # <<>> /\ Top(t).pc = "return" /\ Processing(t)
      /\ UNCHANGED <<clock, changed, disk, client, reply>>
  BY DEF ReturnToUpdate, Processing, AtPc
<1>2. PICK q, r, h : q = Top(t).path /\ r = Top(t).response /\ h = Handler(t)
  OBVIOUS
<1>3. PICK f : f = Last(Front(stack[t]))
  OBVIOUS
<1>4. /\ f \in Frames /\ f.path = q /\ f.if_none_match = NoTag
      /\ Len(stack[t]) = 2 /\ Front(Front(stack[t])) = <<>>
  BY <1>1, <1>2, <1>3, TwoFrames
<1>5. /\ q \in Paths /\ h \in Handlers /\ FrameGranted(t, 2, Top(t))
  BY <1>1, <1>2, <1>4, TopFacts
<1> DEFINE again == r.ok /\ r.code = 304 /\ r.directive # "other"
           e == Entry(r.expiration, r.e_tag)
<1>6. cache' = IF again THEN [cache EXCEPT ![h][q] = e] ELSE cache
  BY <1>2, <1>3, <1>4 DEF ReturnToUpdate
<1>7. PICK pc \in {"read", "fetch"} :
        /\ stack' = [stack EXCEPT ![t] = <<>> \o <<[f EXCEPT !.pc = pc]>>]
        /\ pc = "read" => again \/ r.code = 200
  <2>1. stack' = [stack EXCEPT ![t] = <<>> \o <<[f EXCEPT !.pc = Updated(r)]>>]
    BY <1>2, <1>3, <1>4 DEF ReturnToUpdate
  <2>2. Updated(r) \in {"read", "fetch"} /\ (Updated(r) = "read" => again \/ r.code = 200)
    BY DEF Updated
  <2> QED
    BY <2>1, <2>2
<1>8. PICK g : g = [f EXCEPT !.pc = pc]
  OBVIOUS
<1>9. g \in Frames /\ g.pc = pc /\ g.path = q /\ g.if_none_match = NoTag
  BY <1>4, <1>8, GotoOK, GotoFields
<1>10. stack'[t] = <<g>>
  BY <1>7, <1>8 DEF StepInv, TypeInv, TypeOK
<1>11. Len(stack'[t]) = 1 /\ stack'[t] # <<>> /\ Top(t)' = g /\ Shallow(stack'[t])
  BY <1>9, <1>10 DEF Top, Last, Shallow
<1>12. /\ again => Revalidated(t, q, r)
       /\ r.code = 200 => Usable(t, q)
  BY <1>1, <1>2, <1>5 DEF FrameGranted
<1>13. PICK c : c = IF again THEN e ELSE cache[h][q]
  OBVIOUS
<1>14. /\ cache'[h][q] = c
       /\ \A i \in Handlers, p \in Paths : i # h \/ p # q => cache'[i][p] = cache[i][p]
  <2>1. cache \in [Handlers -> [Paths -> EntryType]]
    BY DEF StepInv, TypeInv, TypeOK
  <2> HIDE DEF again, e
  <2> QED BY <1>5, <1>6, <1>13, <2>1
<1>15. again => c.here /\ c.expiration = r.expiration /\ c.e_tag = r.e_tag
  BY <1>13 DEF Entry
<1>16. pc = "read" => Usable(t, q)'
  <2>1. Handler(t)' = h
    BY <1>1, <1>2 DEF Handler
  <2>2. pc = "read" /\ Exists(q) => c.here /\ Later(t, c.expiration)
    <3>1. CASE again
      BY <1>12, <1>15, <3>1 DEF Revalidated
    <3>2. CASE ~again
      BY <1>2, <1>7, <1>12, <1>13, <3>2 DEF Usable
    <3> QED
      BY <3>1, <3>2
  <2>3. Later(t, c.expiration)' = Later(t, c.expiration) /\ Exists(q)' = Exists(q)
    BY <1>1 DEF Later, Exists
  <2> HIDE DEF again
  <2> QED
    BY <1>14, <2>1, <2>2, <2>3 DEF Usable
<1>17. FrameGranted(t, 1, g)'
  BY <1>9, <1>16 DEF FrameGranted, KnowsTag, Storing
<1>18. ThreadGranted(t)'
  <2>1. PICK n : n = 1
    OBVIOUS
  <2>2. FrameGranted(t, n, g)'
    BY <1>17, <2>1
  <2>3. FrameGranted(t, Len(stack[t]), Top(t))'
    BY <1>11, <2>1, <2>2
  <2>4. CacheGranted(t, reply[t])'
    BY <1>1, ReplyGrantedSame DEF StepInv, GrantedInv, ThreadGranted
  <2>5. (client[t].arrived <= clock)'
    BY <1>1 DEF StepInv, GrantedInv, ThreadGranted
  <2> QED
    BY <1>11, <2>3, <2>4, <2>5 DEF ThreadGranted
<1>19. FilesStorable'
  BY <1>1 DEF StepInv, GrantedInv, FilesStorable, Storable
<1>20. EntriesGranted'
  <2> SUFFICES ASSUME NEW i \in Handlers, NEW p \in Paths PROVE EntryGranted(i, p)'
    BY DEF EntriesGranted
  <2>1. EntryGranted(i, p)
    BY <1>1 DEF StepInv, GrantedInv, EntriesGranted, Replacing, OneThread
  <2>2. PICK b, x : b = disk[p].body /\ x = cache'[i][p]
    OBVIOUS
  <2>3. b = disk'[p].body /\ Exists(p)' = Exists(p)
    BY <1>1, <2>2 DEF Exists
  <2>4. Granted(b, x.expiration)' = Granted(b, x.expiration)
    BY <1>1, GrantedSame
  <2>5. x.here /\ Exists(p) => Granted(b, x.expiration) /\ TagOf(b, x.e_tag)
    <3>1. CASE x = cache[i][p]
      BY <2>1, <2>2, <3>1 DEF EntryGranted
    <3>2. CASE i = h /\ p = q /\ again
      BY <1>12, <1>14, <1>15, <2>2, <3>2 DEF Revalidated
    <3> QED
      BY <1>13, <1>14, <2>2, <3>1, <3>2
  <2> QED
    BY <2>2, <2>3, <2>4, <2>5 DEF EntryGranted
<1> QED
  BY <1>1, <1>18, <1>19, <1>20, ThreadStep DEF StepInv

LEMMA ArriveGranted ==
  ASSUME OneThread, StepInv, NEW t \in Threads, Arrive(t) PROVE GrantedInv'
<1>1. PICK h \in Handlers, uri \in Uris :
        /\ client' = [client EXCEPT ![t] = [h |-> h, uri |-> uri, arrived |-> clock]]
        /\ stack' = [stack EXCEPT ![t] = <<Frame(h, uri, NoTag)>>]
  BY DEF Arrive
<1>2. /\ stack[t] = <<>> /\ UNCHANGED <<clock, changed, cache, disk>>
      /\ reply' = [reply EXCEPT ![t] = NoResponse]
  BY DEF Arrive
<1>3. PICK k : k = Frame(h, uri, NoTag)
  OBVIOUS
<1>4. k.pc = "find" /\ k.if_none_match = NoTag /\ k.response = NoResponse
  BY <1>3 DEF Frame
<1>5. stack'[t] = <<k>> /\ reply'[t] = NoResponse /\ client'[t].arrived = clock
  BY <1>1, <1>2, <1>3 DEF StepInv, TypeInv, TypeOK
<1>6. Len(stack'[t]) = 1 /\ stack'[t] # <<>> /\ Top(t)' = k /\ Shallow(stack'[t])
  BY <1>4, <1>5 DEF Top, Last, Shallow
<1>7. FrameGranted(t, 1, k)'
  BY <1>4 DEF FrameGranted, KnowsTag, Storing
<1>8. ThreadGranted(t)'
  <2>1. PICK n : n = 1
    OBVIOUS
  <2>2. FrameGranted(t, n, k)'
    BY <1>7, <2>1
  <2>3. FrameGranted(t, Len(stack[t]), Top(t))'
    BY <1>6, <2>1, <2>2
  <2>4. CacheGranted(t, reply[t])'
    BY <1>5 DEF CacheGranted, NoResponse
  <2>5. (client[t].arrived <= clock)'
    BY <1>2, <1>5 DEF StepInv, TypeInv, TypeOK
  <2> QED
    BY <1>6, <2>3, <2>4, <2>5 DEF ThreadGranted
<1>9. FilesStorable'
  BY <1>2 DEF StepInv, GrantedInv, FilesStorable, Storable
<1>10. EntriesGranted'
  <2> SUFFICES ASSUME NEW i \in Handlers, NEW p \in Paths PROVE EntryGranted(i, p)'
    BY DEF EntriesGranted
  <2>1. EntryGranted(i, p)
    BY <1>2 DEF StepInv, GrantedInv, EntriesGranted, Replacing, OneThread
  <2>2. PICK b, x : b = disk[p].body /\ x = cache[i][p].expiration
    OBVIOUS
  <2>3. b = disk'[p].body /\ x = cache'[i][p].expiration /\ Granted(b, x)' = Granted(b, x)
    BY <1>2, <2>2, GrantedSame
  <2> QED
    BY <1>2, <2>1, <2>2, <2>3 DEF EntryGranted, Exists
<1> QED
  BY <1>2, <1>8, <1>9, <1>10, ThreadStep DEF StepInv

\* Time passes and versions appear.
LEMMA TimeAges ==
  ASSUME TypeInv, GrantedInv, Tick \/ \E r \in Published : Publish(r)
  PROVE  Ages /\ PastChanges' /\ UNCHANGED <<cache, disk, client, stack, reply>>
<1>1. clock \in Nat /\ changed \in [Resources -> Seq(Nat)] /\ PastChanges
  BY DEF TypeInv, TypeOK, GrantedInv
<1>2. \A r \in Resources : changed[r] \in Seq(Nat) /\ Len(changed[r]) \in Nat
  BY <1>1
<1>3. CASE Tick
  <2>1. clock' = clock + 1 /\ changed' = changed
        /\ UNCHANGED <<cache, disk, client, stack, reply>>
    BY <1>3 DEF Tick
  <2>2. \A n \in Nat : (n + 1)..n = {}
    OBVIOUS
  <2>3. Ages
    BY <1>1, <1>2, <2>1, <2>2 DEF Ages
  <2>4. PastChanges'
    <3> SUFFICES ASSUME NEW r \in Resources, NEW i \in 1..Len(changed[r])
                 PROVE  changed[r][i] <= clock + 1
      BY <2>1 DEF PastChanges
    <3>1. changed[r][i] \in Nat /\ changed[r][i] <= clock
      BY <1>1, <1>2 DEF PastChanges
    <3> QED
      BY <1>1, <3>1
  <2> QED
    BY <2>1, <2>3, <2>4
<1>4. ASSUME NEW q \in Published, Publish(q)
      PROVE  Ages /\ PastChanges' /\ UNCHANGED <<cache, disk, client, stack, reply>>
  <2>1. q \in Resources
    BY DEF Published
  <2>2. /\ changed' = [changed EXCEPT ![q] = Append(@, clock)] /\ clock' = clock
        /\ UNCHANGED <<cache, disk, client, stack, reply>>
    BY <1>4 DEF Publish
  <2>3. /\ changed'[q] = Append(changed[q], clock)
        /\ \A r \in Resources : r # q => changed'[r] = changed[r]
    BY <1>1, <2>1, <2>2
  <2>4. /\ Len(changed'[q]) = Len(changed[q]) + 1
        /\ changed'[q][Len(changed[q]) + 1] = clock
        /\ \A i \in 1..Len(changed[q]) : changed'[q][i] = changed[q][i]
    BY <1>1, <1>2, <2>1, <2>3
  <2>5. ASSUME NEW r \in Resources
        PROVE  /\ Len(changed[r]) <= Len(changed'[r])
               /\ \A i \in 1..Len(changed[r]) : changed'[r][i] = changed[r][i]
               /\ \A i \in (Len(changed[r]) + 1)..Len(changed'[r]) :
                    clock <= changed'[r][i]
               /\ \A i \in 1..Len(changed'[r]) : changed'[r][i] <= clock
    <3>1. \A i \in 1..Len(changed[r]) : changed[r][i] <= clock
      BY <1>1 DEF PastChanges
    <3>2. CASE r = q
      <4>1. \A i \in (Len(changed[q]) + 1)..Len(changed'[q]) : i = Len(changed[q]) + 1
        BY <1>2, <2>1, <2>4
      <4>2. \A i \in 1..Len(changed'[q]) :
              i \in 1..Len(changed[q]) \/ i = Len(changed[q]) + 1
        BY <1>2, <2>1, <2>4
      <4>3. PICK m, d : m = Len(changed[q]) /\ d = changed'[q]
        OBVIOUS
      <4>4. m \in Nat /\ clock \in Nat /\ d[m + 1] = clock /\ Len(d) = m + 1
        BY <1>1, <1>2, <2>1, <2>4, <4>3
      <4>5. \A i \in (m + 1)..Len(d) : clock <= d[i]
        <5>1. clock <= clock
          BY <4>4
        <5> QED
          BY <4>1, <4>3, <4>4, <5>1
      <4>6. \A i \in 1..Len(d) : d[i] <= clock
        <5>1. \A i \in 1..m : d[i] <= clock
          BY <2>4, <3>1, <3>2, <4>3
        <5>2. \A i \in 1..Len(d) : i \in 1..m \/ i = m + 1
          BY <4>2, <4>3
        <5>3. clock <= clock
          BY <4>4
        <5> QED
          BY <4>4, <5>1, <5>2, <5>3
      <4>7. m <= Len(d)
        BY <4>4
      <4> QED
        BY <2>4, <3>2, <4>3, <4>5, <4>6, <4>7
    <3>3. CASE r # q
      <4>1. (Len(changed[r]) + 1)..Len(changed[r]) = {}
        BY <1>2
      <4> QED
        BY <1>2, <2>3, <3>1, <3>3, <4>1
    <3> QED
      BY <3>2, <3>3
  <2>6. Ages
    BY <1>1, <2>2, <2>5 DEF Ages
  <2>7. PastChanges'
    BY <2>2, <2>5 DEF PastChanges
  <2> QED
    BY <2>2, <2>6, <2>7
<1> QED
  BY <1>3, <1>4

LEMMA AgesGranted ==
  ASSUME TypeInv, TypeInv', GrantedInv, Ages, PastChanges',
         UNCHANGED <<cache, disk, client, stack, reply>>
  PROVE  GrantedInv'
<1>1. \A body, x : Granted(body, x) => Granted(body, x)'
  BY GrantedStays DEF TypeInv
<1>2. ASSUME NEW h \in Handlers, NEW p \in Paths, EntryGranted(h, p) PROVE EntryGranted(h, p)'
  <2>1. PICK b, e : b = disk[p].body /\ e = cache[h][p]
    OBVIOUS
  <2>2. e.here /\ Exists(p) => Granted(b, e.expiration)' /\ TagOf(b, e.e_tag)
    BY <1>1, <1>2, <2>1 DEF EntryGranted
  <2>3. b = disk'[p].body /\ e = cache'[h][p] /\ Exists(p)' = Exists(p)
    BY <2>1 DEF Exists
  <2> QED
    BY <2>2, <2>3 DEF EntryGranted
<1>3. EntriesGranted'
  BY <1>2 DEF GrantedInv, EntriesGranted, Replacing, Top
<1>4. FilesStorable'
  BY DEF GrantedInv, FilesStorable, Storable
<1>5. ASSUME NEW t \in Threads PROVE ThreadGranted(t)'
  <2>1. ThreadGranted(t) /\ clock \in Nat /\ clock' \in Nat /\ client[t].arrived \in Nat
    BY DEF TypeInv, TypeOK, GrantedInv
  <2>2. client'[t].arrived <= clock'
    BY <2>1 DEF ThreadGranted, Ages
  <2>3. \A r : CacheGranted(t, r) => CacheGranted(t, r)'
    BY <1>1 DEF CacheGranted, Later
  <2>4. CacheGranted(t, reply[t])'
    <3>1. PICK r : r = reply[t]
      OBVIOUS
    <3>2. CacheGranted(t, r)' /\ r = reply'[t]
      BY <2>1, <2>3, <3>1 DEF ThreadGranted
    <3> QED
      BY <3>2
  <2>5. ASSUME NEW n, NEW f, FrameGranted(t, n, f) PROVE FrameGranted(t, n, f)'
    <3>1. Usable(t, f.path)' = Usable(t, f.path) /\ KnowsTag(f)' = KnowsTag(f)
      BY DEF Usable, KnowsTag, Exists, Handler, Later
    <3>2. StoresGranted(t, f.response) => StoresGranted(t, f.response)'
      BY <1>1 DEF StoresGranted, Later
    <3>3. Revalidated(t, f.path, f.response) => Revalidated(t, f.path, f.response)'
      <4>1. PICK b : b = disk[f.path].body
        OBVIOUS
      <4>2. b = disk'[f.path].body
        BY <4>1
      <4>3. Granted(b, f.response.expiration) => Granted(b, f.response.expiration)'
        BY <1>1
      <4>4. Exists(f.path)' = Exists(f.path)
            /\ Later(t, f.response.expiration)' = Later(t, f.response.expiration)
        BY DEF Exists, Later
      <4> QED
        BY <4>1, <4>2, <4>3, <4>4 DEF Revalidated
    <3>4. CacheGranted(t, f.response) => CacheGranted(t, f.response)'
      BY <2>3
    <3>5. (cache[Handler(t)][f.path].here)' = cache[Handler(t)][f.path].here
          /\ Exists(f.path)' = Exists(f.path) /\ (disk[f.path].body)' = disk[f.path].body
      BY DEF Handler, Exists
    <3> QED
      BY <2>5, <3>1, <3>2, <3>3, <3>4, <3>5 DEF FrameGranted
  <2>6. stack[t] # <<>> => FrameGranted(t, Len(stack[t]), Top(t))'
    <3>1. PICK n, f : n = Len(stack[t]) /\ f = Top(t)
      OBVIOUS
    <3>2. stack[t] # <<>> => FrameGranted(t, n, f)'
      BY <2>1, <2>5, <3>1 DEF ThreadGranted
    <3>3. n = Len(stack'[t]) /\ f = Top(t)'
      BY <3>1 DEF Top
    <3> QED
      BY <3>2, <3>3
  <2> QED
    BY <2>1, <2>2, <2>4, <2>6 DEF ThreadGranted
<1> QED
  BY <1>3, <1>4, <1>5 DEF GrantedInv

LEMMA InitGranted == Init => GrantedInv
<1> SUFFICES ASSUME Init PROVE GrantedInv
  OBVIOUS
<1>1. PastChanges
  BY DEF Init, PastChanges
<1>2. FilesStorable /\ EntriesGranted
  <2>1. \A p \in Paths : disk[p].body = NoBody
    BY DEF Init, NoFile
  <2>2. \A h \in Handlers, p \in Paths : ~cache[h][p].here
    BY DEF Init, Absent, Default, Entry
  <2> QED
    BY <2>1, <2>2 DEF FilesStorable, Storable, EntriesGranted, EntryGranted
<1>3. ASSUME NEW t \in Threads PROVE ThreadGranted(t)
  <2>1. stack[t] = <<>> /\ reply[t] = NoResponse /\ client[t].arrived = 0 /\ clock = 0
    BY DEF Init
  <2> QED
    BY <2>1 DEF ThreadGranted, Shallow, CacheGranted, NoResponse
<1> QED
  BY <1>1, <1>2, <1>3 DEF GrantedInv

\* A step that leaves all of it as it is.
LEMMA StillGranted ==
  ASSUME GrantedInv, UNCHANGED <<clock, changed, cache, disk, client, stack, reply>>
  PROVE  GrantedInv'
<1>1. /\ FilesStorable' /\ PastChanges'
  BY DEF GrantedInv, FilesStorable, Storable, PastChanges
<1>2. EntriesGranted'
  BY DEF GrantedInv, EntriesGranted, EntryGranted, Replacing, Granted, CurrentAt, Version,
         Exists, Top
<1>3. ASSUME NEW t \in Threads PROVE ThreadGranted(t)'
  <2>1. CacheGranted(t, reply[t])'
    BY ReplyGrantedSame DEF GrantedInv, ThreadGranted
  <2>2. stack[t] # <<>> => FrameGranted(t, Len(stack[t]), Top(t))'
    <3>1. PICK n, f : n = Len(stack[t]) /\ f = Top(t)
      OBVIOUS
    <3>2. stack[t] # <<>> => FrameGranted(t, n, f)'
      BY <3>1, FrameGrantedSame DEF GrantedInv, ThreadGranted
    <3>3. n = Len(stack'[t]) /\ f = Top(t)'
      BY <3>1 DEF Top
    <3> QED
      BY <3>2, <3>3
  <2> QED
    BY <2>1, <2>2 DEF GrantedInv, ThreadGranted
<1> QED
  BY <1>1, <1>2, <1>3 DEF GrantedInv

LEMMA NextGranted ==
  ASSUME OneThread, OneHandler, NoAliases, StripsOnce, SteadyCaching, StepInv, [Next]_vars
  PROVE  GrantedInv'
<1>1. CASE UNCHANGED vars
  BY <1>1, StillGranted DEF vars, StepInv
<1>2. CASE Next
  <2>1. CASE MapRace \/ \E t \in Threads : Ends(t)
    BY <2>1, EndsStep, StillGranted DEF StepInv
  <2>2. CASE Tick \/ \E r \in Published : Publish(r)
    <3>1. TypeInv'
      BY <1>2, NextType DEF StepInv
    <3> QED
      BY <2>2, <3>1, TimeAges, AgesGranted DEF StepInv
  <2>3. ASSUME NEW t \in Threads, Arrive(t) \/ (Handle(t) /\ ~Ends(t)) PROVE GrantedInv'
    BY <2>3, ArriveGranted, FindGranted, CheckGranted, TakeTagGranted, EraseGranted, ReadGranted,
       FetchingGranted, OpenWriteGranted, EnterGranted, ReturnToClientGranted,
       ReturnToUpdateGranted DEF Handle, Ends
  <2> QED
    BY <1>2, <2>1, <2>2, <2>3 DEF Next, Handle
<1> QED
  BY <1>1, <1>2

\* All of it together is what every step keeps.
LEMMA GrantedAlways ==
  ASSUME OneThread, OneHandler, NoAliases, StripsOnce, SteadyCaching
  PROVE  Spec => []StepInv
<1>1. Init => StepInv
  BY InitType, InitRight, InitWhole, InitBacked, InitGranted DEF StepInv
<1>2. StepInv /\ [Next]_vars => StepInv'
  BY NextType, NextRight, NextWhole, NextBacked, NextGranted DEF StepInv
<1> QED
  BY <1>1, <1>2, PTL DEF Spec

\* With one thread, one handler, no URI from which the prefix can be erased twice
\* and an origin whose Cache-Control does not change its mind, a reply from the
\* cache is whole, and no older than max-age when the request arrives, however often the
\* entry was revalidated, replaced or taken out, and whatever failed on the way
\* (HandleCache, UpdateCache, MakeCache).
THEOREM CacheFresh ==
  ASSUME OneThread, OneHandler, NoAliases, StripsOnce, SteadyCaching
  PROVE  Spec => []CachedReplyFresh
<1>1. StepInv => CachedReplyFresh
  <2> SUFFICES ASSUME StepInv, NEW t \in Threads, Cached(t)
               PROVE  /\ reply[t].whole
                      /\ CurrentIn(reply[t].body,
                                   {s \in 0..clock : s + MaxAge > client[t].arrived})
    BY DEF CachedReplyFresh
  <2>1. Granted(reply[t].body, reply[t].expiration) /\ Later(t, reply[t].expiration)
    BY DEF Cached, StepInv, GrantedInv, ThreadGranted, CacheGranted
  <2>2. PICK s \in 0..clock : /\ reply[t].expiration = s + MaxAge
                              /\ CurrentAt(reply[t].body.of, reply[t].body.ver, s)
    BY <2>1 DEF Granted
  <2>3. client[t].arrived \in Nat /\ clock \in Nat /\ MaxAge \in Nat
    BY ProxyBoundsAssumption DEF StepInv, TypeInv, TypeOK
  <2>4. s + MaxAge > client[t].arrived
    BY <2>1, <2>2, <2>3 DEF Later
  <2>5. reply[t].whole
    BY DEF StepInv, WholeInv
  <2> QED
    BY <2>2, <2>4, <2>5 DEF CurrentIn
<1> QED
  BY <1>1, GrantedAlways, PTL

\* Under the same hypotheses the max-age that a reply from the cache carries ends
\* no later than the one the origin granted for that version: what HandleCache counts down from is
\* the expiration of the last answer of the origin for it.
THEOREM CacheGrants ==
  ASSUME OneThread, OneHandler, NoAliases, StripsOnce, SteadyCaching
  PROVE  Spec => []MaxAgeGranted
<1>1. StepInv => MaxAgeGranted
  <2> SUFFICES ASSUME StepInv, NEW t \in Threads, Cached(t)
               PROVE  /\ reply[t].expiration # Forever
                      /\ CurrentIn(reply[t].body,
                                   {s \in 0..clock : reply[t].expiration <= s + MaxAge})
    BY DEF MaxAgeGranted
  <2> DEFINE x == reply[t].expiration
  <2>1. Granted(reply[t].body, x) /\ Later(t, x)
    BY DEF Cached, StepInv, GrantedInv, ThreadGranted, CacheGranted
  <2>2. PICK s \in 0..clock : x = s + MaxAge /\ CurrentAt(reply[t].body.of, reply[t].body.ver, s)
    BY <2>1 DEF Granted
  <2>3. x \in Nat
    BY <2>1 DEF Later
  <2> HIDE DEF x
  <2>4. x # Forever /\ x <= s + MaxAge
    BY <2>2, <2>3, ProxyBoundsAssumption DEF Forever
  <2> QED
    BY <2>2, <2>4 DEF CurrentIn, x
<1> QED
  BY <1>1, GrantedAlways, PTL

-----------------------------------------------------------------------------
(***************************************************************************)
(* The recursion of one thread.  The request of UpdateCache is for the     *)
(* path that is updated, and until it has found no entry there, no step    *)
(* makes one: it fetches, and never comes to a check.                      *)
(***************************************************************************)
Inner == {"erase", "find", "fetch", "open", "write", "enter", "return"}

StrippedFrames(h) == {f \in Frames : f.path = PathOf(f.uri) /\ Strip(h, f.uri) = f.uri}

Nesting(t) ==
  /\ stack[t] \in Seq(StrippedFrames(Handler(t)))
  /\ Len(stack[t]) <= 2
  /\ Len(stack[t]) = 2 =>
       /\ Top(t).pc \in Inner
       /\ Top(t).path = stack[t][1].path
       /\ Top(t).pc = "find" => ~cache[Handler(t)][Top(t).path].here

NestInv == \A t \in Threads : Nesting(t)

LEMMA NestTop ==
  ASSUME NestInv, TypeInv, NEW t \in Threads, stack[t] # <<>>
  PROVE  /\ Top(t) \in StrippedFrames(Handler(t)) /\ Top(t) \in Frames
         /\ Len(stack[t]) \in {1, 2}
         /\ Len(stack[t]) = 2 => Nesting(t) /\ Top(t).pc \in Inner
<1>1. Nesting(t)
  BY DEF NestInv
<1>2. Len(stack[t]) \in Nat /\ Len(stack[t]) # 0
  BY <1>1 DEF Nesting
<1>3. Top(t) \in StrippedFrames(Handler(t))
  BY <1>1, TopType DEF Nesting
<1>4. Top(t) \in Frames
  BY <1>3 DEF StrippedFrames
<1>5. Len(stack[t]) <= 2 /\ (Len(stack[t]) = 2 => Top(t).pc \in Inner)
  BY <1>1 DEF Nesting
<1>6. Len(stack[t]) \in {1, 2}
  <2> DEFINE n == Len(stack[t])
  <2>1. n \in Nat /\ n # 0 /\ n <= 2
    BY <1>2, <1>5
  <2> HIDE DEF n
  <2>2. n \in {1, 2}
    BY <2>1
  <2> QED
    BY <2>2 DEF n
<1> QED
  BY <1>1, <1>3, <1>4, <1>5, <1>6

\* What a step of a frame leaves of it.
LEMMA SameUri ==
  ASSUME NEW t \in Threads, Top(t) \in Frames, NEW pc, NEW r,
         \/ SetTop(t, [Top(t) EXCEPT !.pc = pc])
         \/ SetTop(t, [Top(t) EXCEPT !.pc = pc, !.response = r])
         \/ pc = Top(t).pc /\ SetTop(t, [Top(t) EXCEPT !.target = r])
  PROVE  \E g : SetTop(t, g) /\ g.uri = Top(t).uri /\ g.path = Top(t).path /\ g.pc = pc
<1>1. PICK f \in Frames : f = Top(t)
  OBVIOUS
<1> DEFINE Same(g) == g.uri = f.uri /\ g.path = f.path
           a == [f EXCEPT !.pc = pc]
           b == [f EXCEPT !.pc = pc, !.response = r]
           c == [f EXCEPT !.target = r]
<1>2. Same(a) /\ a.pc = pc /\ Same(b) /\ b.pc = pc /\ Same(c) /\ c.pc = f.pc
  BY DEF Frames, FrameType
<1>3. SetTop(t, a) \/ SetTop(t, b) \/ (pc = f.pc /\ SetTop(t, c))
  BY <1>1
<1> HIDE DEF a, b, c
<1> QED
  BY <1>1, <1>2, <1>3, Zenon

\* The innermost frame goes on, for the same URI.
LEMMA NestSetTop ==
  ASSUME OneThread, TypeInv, TypeInv', NestInv, UNCHANGED client,
         NEW t \in Threads, stack[t] # <<>>,
         NEW f, SetTop(t, f), f.uri = Top(t).uri, f.path = Top(t).path,
         Len(stack[t]) = 2 =>
           f.pc \in Inner /\ (f.pc = "find" => ~cache'[Handler(t)][Top(t).path].here)
  PROVE  NestInv'
<1> DEFINE s == stack[t]
           h == Handler(t)
           S == Frames \cup {f}
<1>1. s \in Seq(StrippedFrames(h)) /\ s \in Seq(S) /\ stack = [u \in Threads |-> stack[u]]
  <2>1. s \in Seq(StrippedFrames(h)) /\ s \in Seq(Frames) /\ stack = [u \in Threads |-> stack[u]]
    BY DEF NestInv, Nesting, TypeInv, StackOK
  <2>2. Frames \subseteq S
    OBVIOUS
  <2> HIDE DEF S
  <2> QED
    BY <2>1, <2>2
<1>2. /\ stack'[t] = Front(s) \o <<f>> /\ stack'[t] # <<>>
      /\ Last(stack'[t]) = f /\ Len(stack'[t]) = Len(s)
      /\ \A i \in 1..(Len(s) - 1) : stack'[t][i] = s[i]
  <2>1. f \in S
    OBVIOUS
  <2> HIDE DEF S
  <2> QED
    BY <1>1, <2>1, SetTopTop
<1>3. f \in Frames
  <2>1. stack'[t] \in Seq(Frames)
    BY DEF TypeInv, StackOK
  <2> QED
    BY <1>2, <2>1, PopType
<1>4. Top(t) \in StrippedFrames(h) /\ Len(s) \in {1, 2} /\ Nesting(t)
  BY NestTop DEF NestInv
<1>5. f \in StrippedFrames(h)
  BY <1>3, <1>4 DEF StrippedFrames
<1>6. stack'[t] \in Seq(StrippedFrames(h))
  BY <1>1, <1>2, <1>5, PopType, PushType
<1>7. Handler(t)' = h /\ Top(t)' = f
  BY <1>2 DEF Handler, Top
<1>8. Len(stack'[t]) = 2 => stack'[t][1] = s[1]
  BY <1>2
<1>9. Nesting(t)'
  BY <1>2, <1>4, <1>6, <1>7, <1>8 DEF Nesting
<1> QED
  BY <1>9 DEF NestInv, OneThread

LEMMA NestGoto ==
  ASSUME OneThread, TypeInv, TypeInv', NestInv, UNCHANGED client,
         NEW t \in Threads, stack[t] # <<>>,
         NEW pc, Goto(t, pc),
         Len(stack[t]) = 2 =>
           pc \in Inner /\ (pc = "find" => ~cache'[Handler(t)][Top(t).path].here)
  PROVE  NestInv'
<1> DEFINE f == Top(t)
           g == [f EXCEPT !.pc = pc]
<1>1. f \in Frames
  BY NestTop
<1>2. g.pc = pc /\ g.uri = f.uri /\ g.path = f.path
  BY <1>1 DEF Frames, FrameType
<1>3. SetTop(t, g)
  BY DEF Goto
<1> HIDE DEF g
<1> QED
  BY <1>2, <1>3, NestSetTop

\* The lookup, the check, the erase and the file.
LEMMA LooksNest ==
  ASSUME OneThread, TypeInv, TypeInv', NestInv, NEW t \in Threads,
         Find(t) \/ Check(t) \/ Erase(t) \/ Read(t)
  PROVE  NestInv'
<1> DEFINE f == Top(t)
<1>1. stack[t] # <<>> /\ UNCHANGED client
  BY DEF Find, Check, Erase, Read, AtPc
<1>2. f \in Frames /\ Len(stack[t]) \in {1, 2}
      /\ (Len(stack[t]) = 2 => Nesting(t) /\ f.pc \in Inner)
  BY <1>1, NestTop
<1>3. CASE Find(t)
  <2>1. PICK pc \in {"check", "fetch"} :
          Goto(t, pc) /\ (pc = "check" <=> cache[Handler(t)][f.path].here)
    BY <1>3 DEF Find
  <2>2. Len(stack[t]) = 2 => pc \in Inner /\ pc # "find"
    BY <1>2, <1>3, <2>1 DEF Nesting, Inner, Find, AtPc
  <2> QED
    BY <1>1, <2>1, <2>2, NestGoto
<1>4. CASE Check(t)
  <2>1. PICK pc \in {"tag", "read"} : Goto(t, pc)
    BY <1>4 DEF Check
  <2>2. Len(stack[t]) # 2
    BY <1>2, <1>4 DEF Inner, Check, AtPc
  <2> QED
    BY <1>1, <2>1, <2>2, NestGoto
<1>5. CASE Erase(t)
  <2>1. Goto(t, "find")
    BY <1>5 DEF Erase
  <2>2. Len(stack[t]) = 2 => ~cache'[Handler(t)][f.path].here
    <3> SUFFICES ASSUME Len(stack[t]) = 2 PROVE ~cache'[Handler(t)][f.path].here
      OBVIOUS
    <3>1. stack[t] \in Seq(StrippedFrames(Handler(t))) /\ stack[t][1].path = f.path
      BY <1>2 DEF Nesting
    <3>2. Len(Front(stack[t])) = 1 /\ Front(stack[t])[1] = stack[t][1]
      <4>1. /\ Len(Front(stack[t])) = Len(stack[t]) - 1
            /\ \A i \in 1..(Len(stack[t]) - 1) : Front(stack[t])[i] = stack[t][i]
        BY <1>1, <3>1, PopType
      <4> QED
        BY <4>1
    <3>3. Last(Front(stack[t])).path = f.path
      BY <3>1, <3>2 DEF Last
    <3>4. f.path \in Paths /\ Handler(t) \in Handlers
      BY <1>2, HandlerType DEF TypeInv, Frames, FrameType
    <3>5. cache' = [cache EXCEPT ![Handler(t)][f.path] = Absent]
      BY <1>5, <3>3 DEF Erase
    <3>6. cache'[Handler(t)][f.path] = Absent
      BY <3>4, <3>5 DEF TypeInv, TypeOK
    <3> QED
      BY <3>6 DEF Absent, Default, Entry
  <2> QED
    BY <1>1, <2>1, <2>2, NestGoto DEF Inner
<1>6. CASE Read(t)
  <2>1. Len(stack[t]) # 2
    BY <1>2, <1>6 DEF Inner, Read, AtPc
  <2>2. PICK r : SetTop(t, [f EXCEPT !.pc = "spin"]) \/ SetTop(t, [f EXCEPT !.pc = "return", !.response = r])
    BY <1>6 DEF Read, Goto
  <2>3. PICK g : SetTop(t, g) /\ g.uri = f.uri /\ g.path = f.path
    BY <1>2, <2>2, SameUri
  <2> QED
    BY <1>1, <2>1, <2>3, NestSetTop
<1> QED
  BY <1>3, <1>4, <1>5, <1>6

\* The origin's answer, and what MakeCache does with it.
LEMMA FetchesNest ==
  ASSUME OneThread, TypeInv, TypeInv', NestInv, NEW t \in Threads,
         \/ FollowRedirect(t) \/ FetchFails(t) \/ Fetch(t)
         \/ Open(t) \/ Write(t) \/ Enter(t)
  PROVE  NestInv'
<1> DEFINE f == Top(t)
<1>1. stack[t] # <<>> /\ UNCHANGED client
  BY DEF FollowRedirect, FetchFails, Fetch, Open, Write, Enter, AtPc
<1>2. f \in Frames
  BY <1>1, NestTop
<1>3. CASE FollowRedirect(t)
  <2>1. SetTop(t, [f EXCEPT !.target = ParseLocation(@)]) /\ f.pc = "fetch"
    BY <1>3 DEF FollowRedirect, AtPc
  <2>2. PICK g : SetTop(t, g) /\ g.uri = f.uri /\ g.path = f.path /\ g.pc = "fetch"
    BY <1>2, <2>1, SameUri
  <2> QED
    BY <1>1, <2>2, NestSetTop DEF Inner
<1>4. CASE FetchFails(t) \/ Fetch(t)
  <2>1. PICK pc \in {"open", "return"}, r \in ResponseType :
          SetTop(t, [f EXCEPT !.pc = pc, !.response = r])
    <3>1. CASE FetchFails(t)
      BY <3>1, NoResponseType DEF FetchFails
    <3>2. CASE Fetch(t)
      <4>1. PICK tag \in {NoTag, Version(f.target)}, code \in Codes \cup {304},
                 d \in Directive, pc \in {"open", "return"}, body \in BodyType :
              FetchedAs(t, tag, code, d, pc, body)
        BY <3>2, FetchCases
      <4> QED
        BY <4>1 DEF FetchedAs
    <3> QED
      BY <1>4, <3>1, <3>2
  <2>2. PICK g : SetTop(t, g) /\ g.uri = f.uri /\ g.path = f.path /\ g.pc = pc
    BY <1>2, <2>1, SameUri
  <2> QED
    BY <1>1, <2>2, NestSetTop DEF Inner
<1>5. CASE Open(t) \/ Write(t) \/ Enter(t)
  <2>1. PICK pc \in {"write", "enter", "return"} : Goto(t, pc)
    BY <1>5 DEF Open, Write, Enter
  <2> QED
    BY <1>1, <2>1, NestGoto DEF Inner
<1> QED
  BY <1>3, <1>4, <1>5

\* UpdateCache calls HandleRequest with a URI that holds the prefix no more.
LEMMA TakeTagNest ==
  ASSUME OneThread, TypeInv, TypeInv', NestInv, NEW t \in Threads, TakeTag(t)
  PROVE  NestInv'
<1> DEFINE h == Handler(t)
           f == Top(t)
           tag == At(h, f.path).e_tag
           g == [f EXCEPT !.pc = "updating"]
           k == [Frame(h, f.uri, tag) EXCEPT !.pc = "erase"]
           s == Front(stack[t])
<1>1. stack[t] # <<>> /\ f.pc = "tag" /\ UNCHANGED client /\ h \in Handlers
  BY HandlerType DEF TakeTag, AtPc, TypeInv
<1>2. f \in StrippedFrames(h) /\ f \in Frames /\ Len(stack[t]) = 1
  BY <1>1, NestTop DEF Inner
<1>3. f.path \in Paths /\ f.uri \in Uris /\ f.path = PathOf(f.uri) /\ Strip(h, f.uri) = f.uri
  BY <1>2 DEF StrippedFrames, Frames, FrameType
<1>4. tag \in Nat \cup {NoTag}
  BY <1>1, <1>3, EntryOK DEF TypeInv, EntryType
<1>5. k \in Frames /\ k.uri = f.uri /\ k.path = f.path /\ k.pc = "erase"
  <2> DEFINE uri == f.uri
  <2>1. /\ h \in Handlers /\ uri \in Uris /\ tag \in Nat \cup {NoTag}
        /\ Strip(h, uri) = uri /\ PathOf(uri) = f.path
        /\ k = [Frame(h, uri, tag) EXCEPT !.pc = "erase"]
    BY <1>1, <1>3, <1>4
  <2> HIDE DEF uri, tag, k, h
  <2>2. k \in Frames /\ k.uri = uri /\ k.path = f.path /\ k.pc = "erase"
    BY <2>1, UpdateOK
  <2> QED
    BY <2>2 DEF uri
<1>6. g \in StrippedFrames(h) /\ g.path = f.path
  <2>1. g \in Frames
    BY <1>2, GotoOK
  <2>2. g.uri = f.uri /\ g.path = f.path
    BY <1>2 DEF Frames, FrameType
  <2> QED
    BY <1>3, <2>1, <2>2 DEF StrippedFrames
<1>7. k \in StrippedFrames(h)
  BY <1>3, <1>5 DEF StrippedFrames
<1>8. s = <<>>
  <2>1. s \in Seq(Frames) /\ Len(s) = Len(stack[t]) - 1
    BY <1>1, PopType DEF TypeInv, StackOK
  <2> HIDE DEF s
  <2> QED
    BY <1>2, <2>1
<1>9. stack'[t] = s \o <<g, k>>
  BY DEF TakeTag, TypeInv, TypeOK
<1> HIDE DEF g, k, s
<1>10. stack'[t] = <<g, k>>
  BY <1>8, <1>9
<1>11. /\ stack'[t] \in Seq(StrippedFrames(h)) /\ Len(stack'[t]) = 2
       /\ stack'[t][1] = g /\ Last(stack'[t]) = k
  BY <1>6, <1>7, <1>10 DEF Last
<1>12. Handler(t)' = h /\ Top(t)' = k
  BY <1>1, <1>11 DEF Handler, Top
<1>13. Nesting(t)'
  BY <1>5, <1>6, <1>11, <1>12 DEF Nesting, Inner
<1> QED
  BY <1>13 DEF NestInv, OneThread

LEMMA ReturnsNest ==
  ASSUME OneThread, TypeInv, TypeInv', NestInv, NEW t \in Threads,
         ReturnToClient(t) \/ ReturnToUpdate(t)
  PROVE  NestInv'
<1>1. stack[t] # <<>> /\ UNCHANGED client /\ Handler(t)' = Handler(t)
  BY DEF ReturnToClient, ReturnToUpdate, Processing, AtPc, Handler
<1>2. CASE ReturnToClient(t)
  <2>1. stack'[t] = <<>>
    BY <1>2 DEF ReturnToClient, TypeInv, TypeOK
  <2>2. Nesting(t)'
    BY <2>1 DEF Nesting
  <2> QED
    BY <2>2 DEF NestInv, OneThread
<1>3. CASE ReturnToUpdate(t)
  <2> DEFINE h == Handler(t)
             below == Front(stack[t])
             f == Last(below)
             pc == Updated(Top(t).response)
             g == [f EXCEPT !.pc = pc]
  <2>1. stack[t] \in Seq(StrippedFrames(h)) /\ Len(stack[t]) = 2
    <3>1. Len(stack[t]) > 1
      BY <1>3 DEF ReturnToUpdate, Processing
    <3>2. Len(stack[t]) \in {1, 2}
      BY <1>1, NestTop
    <3>3. stack[t] \in Seq(StrippedFrames(h))
      BY DEF NestInv, Nesting
    <3> QED
      BY <3>1, <3>2, <3>3
  <2>2. below \in Seq(StrippedFrames(h)) /\ Len(below) = 1
    <3>1. below \in Seq(StrippedFrames(h)) /\ Len(below) = Len(stack[t]) - 1
      BY <1>1, <2>1, PopType
    <3> QED
      BY <2>1, <3>1
  <2>3. f \in StrippedFrames(h) /\ Front(below) = <<>>
    <3> HIDE DEF below, h
    <3>1. below # <<>>
      BY <2>2
    <3>2. /\ Last(below) \in StrippedFrames(h) /\ Front(below) \in Seq(StrippedFrames(h))
          /\ Len(Front(below)) = Len(below) - 1
      BY <2>2, <3>1, PopType
    <3> DEFINE u == Front(below)
    <3> HIDE DEF u
    <3>3. u = <<>>
      BY <2>2, <3>2 DEF u
    <3> QED
      BY <3>2, <3>3 DEF u
  <2>4. pc \in {"read", "fetch"}
    BY DEF Updated
  <2>5. g \in StrippedFrames(h)
    <3> HIDE DEF pc, f
    <3>1. f \in Frames
      BY <2>3 DEF StrippedFrames
    <3>2. g \in Frames
      BY <2>4, <3>1, GotoOK
    <3>3. g.uri = f.uri /\ g.path = f.path
      BY <3>1 DEF Frames, FrameType
    <3> QED
      BY <2>3, <3>2, <3>3 DEF StrippedFrames
  <2>6. stack'[t] = Front(below) \o <<g>>
    BY <1>3 DEF ReturnToUpdate, TypeInv, TypeOK
  <2> HIDE DEF g, below, h
  <2>7. stack'[t] \in Seq(StrippedFrames(h)) /\ Len(stack'[t]) = 1
    BY <2>3, <2>5, <2>6
  <2>8. Nesting(t)'
    BY <1>1, <2>7 DEF Nesting, h
  <2> QED
    BY <2>8 DEF NestInv, OneThread
<1> QED
  BY <1>2, <1>3

LEMMA ArriveNest ==
  ASSUME OneThread, StripsOnce, TypeInv, TypeInv', NestInv, NEW t \in Threads, Arrive(t)
  PROVE  NestInv'
<1>1. PICK h \in Handlers, uri \in Uris :
        /\ stack' = [stack EXCEPT ![t] = <<Frame(h, uri, NoTag)>>]
        /\ client' = [client EXCEPT ![t] = [h |-> h, uri |-> uri, arrived |-> clock]]
  BY DEF Arrive
<1> DEFINE k == Frame(h, uri, NoTag)
<1>2. k \in Frames /\ k.uri = Strip(h, uri) /\ k.path = PathOf(Strip(h, uri))
  BY FrameOK
<1>3. k \in StrippedFrames(h)
  BY <1>2 DEF StrippedFrames, StripsOnce
<1>4. stack'[t] = <<k>> /\ Handler(t)' = h
  BY <1>1 DEF TypeInv, TypeOK, Handler
<1> HIDE DEF k
<1>5. stack'[t] \in Seq(StrippedFrames(h)) /\ Len(stack'[t]) = 1
  BY <1>3, <1>4
<1>6. Nesting(t)'
  BY <1>4, <1>5 DEF Nesting
<1> QED
  BY <1>6 DEF NestInv, OneThread

LEMMA StillNests ==
  ASSUME NestInv, UNCHANGED <<stack, cache, client>>
  PROVE  NestInv'
BY DEF NestInv, Nesting, Handler, Top

LEMMA NextNests ==
  OneThread /\ StripsOnce /\ TypeInv /\ NestInv /\ [Next]_vars => NestInv'
<1> SUFFICES ASSUME OneThread, StripsOnce, TypeInv, NestInv, [Next]_vars PROVE NestInv'
  OBVIOUS
<1>1. TypeInv'
  BY NextType
<1>2. CASE UNCHANGED vars
  BY <1>2, StillNests DEF vars
<1>3. CASE Next
  <2>1. CASE \/ Tick \/ MapRace
             \/ \E r \in Published : Publish(r)
             \/ \E t \in Threads : Ends(t)
    BY <2>1, EndsStep, StillNests DEF Tick, Publish
  <2>2. ASSUME NEW t \in Threads, Arrive(t) \/ (Handle(t) /\ ~Ends(t)) PROVE NestInv'
    BY <1>1, <2>2, ArriveNest, LooksNest, TakeTagNest, FetchesNest, ReturnsNest DEF Handle, Ends
  <2> QED
    BY <1>3, <2>1, <2>2 DEF Next, Handle
<1> QED
  BY <1>2, <1>3

\* With one thread, and URIs that do not hold the text of the prefix any more
\* once it has been erased, UpdateCache is never called in the HandleRequest that
\* it calls itself, so that the recursion ends (proxy_handler.cc:376-378): for any
\* handlers and origins, and whatever those answer.
THEOREM UpdatesEnd ==
  ASSUME OneThread, StripsOnce
  PROVE  Spec => []UpdateNotNested
<1>1. Init => TypeInv /\ NestInv
  <2> SUFFICES ASSUME Init PROVE NestInv
    BY InitType
  <2> SUFFICES ASSUME NEW t \in Threads PROVE Nesting(t)
    BY DEF NestInv
  <2>1. stack[t] = <<>>
    BY DEF Init
  <2>2. stack[t] \in Seq(StrippedFrames(Handler(t))) /\ Len(stack[t]) = 0
    BY <2>1
  <2> QED
    BY <2>2 DEF Nesting
<1>2. TypeInv /\ NestInv /\ [Next]_vars => (TypeInv /\ NestInv)'
  BY NextType, NextNests
<1>3. NestInv => UpdateNotNested
  BY DEF NestInv, Nesting, UpdateNotNested
<1> QED
  BY <1>1, <1>2, <1>3, PTL DEF Spec
=============================================================================
