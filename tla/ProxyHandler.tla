---------------------------- MODULE ProxyHandler ----------------------------
(***************************************************************************)
(* The caching reverse proxy (proxy_handler.h/.cc): ProxyHandler objects,  *)
(* the threads of the pool that run HandleRequest on them, the files under *)
(* ./proxy_cache that all the objects share, the origin servers and the    *)
(* clock.                                                                  *)
(*                                                                         *)
(* HandleRequest, HandleCache and UpdateCache call each other recursively: *)
(* a thread has a stack of frames, one per HandleRequest in progress, and  *)
(* UpdateCache is what a frame does between pushing a frame and reading    *)
(* its response.  Threads interleave between the operations on the map, on *)
(* the file and on the network; no lock is taken anywhere.                 *)
(*                                                                         *)
(* URIs are sequences of characters, for the prefix is searched for as     *)
(* text.  A resource has versions; the version is its body and its entity  *)
(* tag.  Only one value of max-age occurs, MaxAge, besides 0.              *)
(***************************************************************************)
EXTENDS Integers, Sequences, SequencesExt

CONSTANTS
  Handlers,     \* the ProxyHandler objects
  Prefix,       \* the uri_prefix_ of each
  Origins,      \* the servers requests go to: host and port
  Origin,       \* the server_host_ and server_port_ of each
  Uris,         \* the URIs of requests, those left after the prefix is erased
                \* once and twice, and what redirects lead to
  Redirect,     \* what the origins answer with 302, and the Location: a host,
                \* or "same" in a relative one, and a URI
  Threads,
  Codes,        \* the status codes origins answer with, besides 302 and 304
  CacheControl, \* per URI, what a 200 or 404 may say (see Directive)
  Revalidation, \* what the Cache-Control header of a 304 may be
  TagHeader,    \* how origins spell the header: "ETag" or "Etag"
  MaxAge,
  Unreliable,   \* whether the connection to an origin may fail
  Malformed,    \* whether a header of an origin may have no value, or a max-age
                \* that is no number
  MaxDepth,     \* the calls of HandleRequest a thread's stack has room for
  MaxClock, MaxVersion, MaxRequests   \* bounds, the second per origin

\* "none" is no header, "other" a header without max-age (no-store, public).
Directive == {"max-age", "zero", "none", "other"}

\* A resource is a URI at an origin.
Resources == {<<o, u>> : o \in Origins, u \in Uris}

ASSUME OriginAssumption == Origin \in [Handlers -> Origins]
ASSUME RedirectAssumption ==
  /\ "same" \notin Origins
  /\ DOMAIN Redirect \subseteq Resources
  /\ \A r \in DOMAIN Redirect : Redirect[r] \in [host: Origins \cup {"same"}, uri: Uris]
ASSUME CacheControlAssumption == CacheControl \in [Uris -> SUBSET Directive]
ASSUME RevalidationAssumption == Revalidation \subseteq Directive
ASSUME CodesAssumption == Codes \subseteq {200, 404}
ASSUME TagHeaderAssumption == TagHeader \in {"ETag", "Etag"}
ASSUME ProxyBoundsAssumption ==
  /\ MaxAge \in Nat \ {0} /\ Unreliable \in BOOLEAN /\ Malformed \in BOOLEAN
  /\ MaxDepth \in Nat \ {0}
  /\ MaxClock \in Nat /\ MaxVersion \in [Origins -> Nat] /\ MaxRequests \in Nat

VARIABLES
  clock,
  changed,    \* per resource, when each of its new versions appeared
  cache,      \* cache_ of each handler
  disk,       \* the files under proxy_cache
  dirs,       \* the directories under proxy_cache
  client,     \* per thread, the request it serves and when it arrived
  stack,      \* per thread, its frames, innermost last
  reply,      \* per thread, the last response it returned
  issued,     \* requests made so far
  terminated  \* an exception or a corrupted map ended the process

vars == <<clock, changed, cache, disk, dirs, client, stack, reply, issued, terminated>>

-----------------------------------------------------------------------------
\* Mutant: one key for everything.
PathOf_Index(uri) == <<"/", "i", "n", "d", "e", "x">>

\* The cache key of a URI: "/a/" is stored as "/a/index".
PathOf(uri) ==
  IF Last(uri) = "/" THEN uri \o <<"i", "n", "d", "e", "x">> ELSE uri
Paths == {PathOf(u) : u \in Uris}

\* uri_prefix_ erased where it first occurs, at the start of the URI or later,
\* whole segments or the letters of one; then "/" in front, unless it is there.
Strip(h, uri) ==
  LET left == ReplaceFirstSubSeq(<<>>, Prefix[h], uri)
  IN  IF left = <<>> \/ Head(left) # "/" THEN <<"/">> \o left ELSE left

\* A URI without the prefix is a URI as well.  No file is spelled in two ways: no
\* segment is empty, or a single dot.
ASSUME UrisAssumption ==
  /\ Handlers # {} /\ Uris # {} /\ Uris \subseteq Seq(STRING) \ {<<>>}
  /\ \A u \in Uris, s \in {<<"/", "/">>, <<"/", ".">>} :
       Head(u) = "/" /\ s \notin SubSeqs(u)
  /\ \A h \in Handlers, u \in Uris : Strip(h, u) \in Uris

\* The URI is below the handler's prefix; below "/" are all.
Below(h, uri) ==
  \/ Prefix[h] \in {<<"/">>, uri}
  \/ IsPrefix(Prefix[h] \o <<"/">>, uri)

\* Mutant: an absolute Location changes the URI only.
ParseLocation_OldHost(r) == <<r[1], Redirect[r].uri>>

\* What the response to r makes of host and URI: a relative Location keeps the
\* host, which may be that of an earlier redirect.
ParseLocation(r) ==
  <<IF Redirect[r].host = "same" THEN r[1] ELSE Redirect[r].host, Redirect[r].uri>>

\* Versions of resource r.
Version(r) == Len(changed[r])

NoTag == -1
NotADateTime == -1          \* a default constructed ptime
Forever == -2               \* what "NotADateTime - now" is printed as

Entry(expiration, e_tag) ==
  [here |-> TRUE, expiration |-> expiration, e_tag |-> e_tag]
Default == Entry(NotADateTime, NoTag)
Absent == [Default EXCEPT !.here = FALSE]

\* cache_[path], which inserts a default entry when there is none.
At(h, path) == IF cache[h][path].here THEN cache[h][path] ELSE Default

\* Mutant: an entry is still used at the second it expires.
Expired_OffByOne(expiration) == expiration = NotADateTime \/ clock > expiration

\* now >= expiration; a comparison with not_a_date_time is never "less".
Expired(expiration) == expiration = NotADateTime \/ clock >= expiration

\* What a body is: the resource it was fetched from, and which version.
NoBody == [of |-> <<>>, ver |-> 0]

NoFile == [state |-> "none", code |-> 0, body |-> NoBody]

\* A raw response; directive and max-age of 304s are for UpdateCache.
NoResponse ==
  [ok |-> FALSE, code |-> 0, body |-> NoBody, whole |-> TRUE, source |-> "origin",
   directive |-> "none", expiration |-> NotADateTime, e_tag |-> NoTag]

Frame(h, uri, if_none_match) ==
  LET u == Strip(h, uri)
  IN  [pc |-> "find", uri |-> u, path |-> PathOf(u), target |-> <<Origin[h], u>>,
       if_none_match |-> if_none_match, response |-> NoResponse]

Top(t) == Last(stack[t])
Handler(t) == client[t].h

\* The innermost frame of t becomes f.
SetTop(t, f) == stack' = [stack EXCEPT ![t] = Front(@) \o <<f>>]
Goto(t, pc) == SetTop(t, [Top(t) EXCEPT !.pc = pc])

\* t's innermost frame is at pc.
AtPc(t, pc) == stack[t] # <<>> /\ Top(t).pc = pc

\* The directories of path, and the files that stand where it needs one.
DirsAbove(path) ==
  {SubSeq(path, 1, i - 1) : i \in {k \in 2..Len(path) : path[k] = "/"}}
FilesAbove(path) == {d \in DirsAbove(path) \cap Paths : disk[d].state # "none"}

\* The path is a directory, or below a file: an open failed on it.
Clash(path) == path \in dirs \/ FilesAbove(path) # {}
-----------------------------------------------------------------------------
(***************************************************************************)
(* Where redirects lead: to what lies in every set of resources that goes  *)
(* on with the Location of a member.  Nowhere when they lead in a circle.  *)
(***************************************************************************)
GoesOn(S) ==
  \A r \in S \cap DOMAIN Redirect, o \in Origins :
    Redirect[r].host = o \/ (Redirect[r].host = "same" /\ r[1] = o)
      => <<o, Redirect[r].uri>> \in S

LeadsTo ==
  {x \in {<<r, s>> : r \in Resources, s \in Resources \ DOMAIN Redirect} :
     \A S \in SUBSET Resources : x[1] \in S /\ GoesOn(S) => x[2] \in S}

\* What a request to h is for.
Target(h, uri) == <<Origin[h], Strip(h, uri)>>

Init ==
  /\ clock = 0
  /\ changed = [r \in Resources |-> <<>>]
  /\ cache = [h \in Handlers |-> [p \in Paths |-> Absent]]
  /\ disk = [p \in Paths |-> NoFile] /\ dirs = {}
  /\ client = [t \in Threads |->
                 [h |-> CHOOSE h \in Handlers : TRUE, uri |-> CHOOSE u \in Uris : TRUE,
                  arrived |-> 0]]
  /\ stack = [t \in Threads |-> <<>>]
  /\ reply = [t \in Threads |-> NoResponse]
  /\ issued = 0
  /\ terminated = FALSE

\* UpdateCache is about to read a response that has just arrived.
Processing(t) == AtPc(t, "return") /\ Len(stack[t]) > 1

\* A second passes; reading a received header takes less.
Tick ==
  /\ clock < MaxClock /\ \A t \in Threads : ~Processing(t)
  /\ clock' = clock + 1
  /\ UNCHANGED <<changed, cache, disk, dirs, client, stack, reply, issued, terminated>>

\* What a request can lead to, or the request that revalidates its answer.
Published ==
  {s \in Resources : \E h \in Handlers, u \in Uris :
     /\ Below(h, u)
     /\ <<Target(h, u), s>> \in LeadsTo \/ <<Target(h, Strip(h, u)), s>> \in LeadsTo}

\* An origin publishes a new version of a resource.
Publish(r) ==
  /\ Version(r) < MaxVersion[r[1]]
  /\ changed' = [changed EXCEPT ![r] = Append(@, clock)]
  /\ UNCHANGED <<clock, cache, disk, dirs, client, stack, reply, issued, terminated>>

\* Connection::ProcessRequest calls HandleRequest of the handler with the
\* longest prefix.  The method makes no difference to what follows.
Arrive(t) ==
  /\ stack[t] = <<>> /\ issued < MaxRequests
  /\ \E h \in Handlers, uri \in Uris :
       /\ Below(h, uri)
       /\ \A g \in Handlers : Below(g, uri) => Len(Prefix[g]) <= Len(Prefix[h])
       /\ client' = [client EXCEPT ![t] = [h |-> h, uri |-> uri, arrived |-> clock]]
       /\ stack' = [stack EXCEPT ![t] = <<Frame(h, uri, NoTag)>>]
  /\ reply' = [reply EXCEPT ![t] = NoResponse]
  /\ issued' = issued + 1
  /\ UNCHANGED <<clock, changed, cache, disk, dirs, terminated>>

-----------------------------------------------------------------------------
(***************************************************************************)
(* HandleCache: the lookup, the expiration, the file.                      *)
(***************************************************************************)
Find(t) ==
  /\ AtPc(t, "find")
  /\ Goto(t, IF cache[Handler(t)][Top(t).path].here THEN "check" ELSE "fetch")
  /\ UNCHANGED <<clock, changed, cache, disk, dirs, client, reply, issued, terminated>>

\* A fresh entry is read, an expired one updated.  By now it may have been
\* erased, and is then inserted, as one that has expired.
Check(t) ==
  LET h == Handler(t)
      f == Top(t)
      e == At(h, f.path)
  IN  /\ AtPc(t, "check")
      /\ cache' = [cache EXCEPT ![h][f.path] = e]
      /\ Goto(t, IF Expired(e.expiration) THEN "tag" ELSE "read")
      /\ UNCHANGED <<clock, changed, disk, dirs, client, reply, issued, terminated>>

(***************************************************************************)
(* UpdateCache up to its call of HandleRequest: the request, with the tag  *)
(* of the entry as it is now, then the entry erased.  The request's frame  *)
(* is there from the start, with UpdateCache's erase as its first step.    *)
(***************************************************************************)
TakeTag(t) ==
  LET h == Handler(t)
      f == Top(t)
      e == At(h, f.path)
      request == [Frame(h, f.uri, e.e_tag) EXCEPT !.pc = "erase"]
  IN  /\ AtPc(t, "tag") /\ Len(stack[t]) < MaxDepth
      /\ cache' = [cache EXCEPT ![h][f.path] = e]
      /\ stack' = [stack EXCEPT ![t] =
           Front(@) \o <<[f EXCEPT !.pc = "updating"], request>>]
      /\ UNCHANGED <<clock, changed, disk, dirs, client, reply, issued, terminated>>

\* Nothing but the entry's absence ends the recursion, and two threads can go on
\* inserting it for each other, as expired.
StackOverflows(t) ==
  /\ AtPc(t, "tag") /\ Len(stack[t]) >= MaxDepth
  /\ terminated' = TRUE
  /\ UNCHANGED <<clock, changed, cache, disk, dirs, client, stack, reply, issued>>

\* Mutant: the entry stays until it is replaced.
Erase_KeepsEntry(t) ==
  /\ AtPc(t, "erase")
  /\ Goto(t, "find")
  /\ UNCHANGED <<clock, changed, cache, disk, dirs, client, reply, issued, terminated>>

\* The entry of the path that is updated, which need not be the request's.
Erase(t) ==
  LET updated == Last(Front(stack[t])).path
  IN  /\ AtPc(t, "erase")
      /\ cache' = [cache EXCEPT ![Handler(t)][updated] = Absent]
      /\ Goto(t, "find")
      /\ UNCHANGED <<clock, changed, disk, dirs, client, reply, issued, terminated>>

\* Nothing sets eof on a stream that could not be opened or read: the loop
\* that reads lines goes on ("spin") until the line ends it appends exhaust the
\* memory, which is not modelled.
Readable(path) ==
  disk[path].state # "none" /\ ~Clash(path)

\* The stored response, with max-age counted from cache_[path] as it is now.
Read(t) ==
  LET h    == Handler(t)
      f    == Top(t)
      file == disk[f.path]
      e    == At(h, f.path)
  IN  /\ AtPc(t, "read")
      /\ \/ /\ ~Readable(f.path)
            /\ Goto(t, "spin")
            /\ UNCHANGED cache
         \/ /\ Readable(f.path) /\ file.state = "empty"
            /\ SetTop(t, [f EXCEPT !.pc = "return",
                 !.response = [NoResponse EXCEPT !.ok = TRUE, !.whole = FALSE,
                                                 !.source = "cache"]])
            /\ UNCHANGED cache
         \/ /\ Readable(f.path) /\ file.state # "empty"
            /\ cache' = [cache EXCEPT ![h][f.path] = e]
            /\ SetTop(t, [f EXCEPT !.pc = "return",
                 !.response =
                   [NoResponse EXCEPT
                      !.ok = TRUE, !.code = file.code, !.body = file.body,
                      !.whole = file.state = "whole", !.source = "cache",
                      !.expiration = IF e.expiration = NotADateTime
                                       THEN Forever ELSE e.expiration]])
      /\ UNCHANGED <<clock, changed, disk, dirs, client, reply, issued, terminated>>

(***************************************************************************)
(* HandleRequest's loop: connect, send, read the answer; on 302 again.     *)
(***************************************************************************)
FollowRedirect(t) ==
  /\ AtPc(t, "fetch") /\ Top(t).target \in DOMAIN Redirect
  /\ SetTop(t, [Top(t) EXCEPT !.target = ParseLocation(@)])
  /\ UNCHANGED <<clock, changed, cache, disk, dirs, client, reply, issued, terminated>>

\* Resolving, connecting, writing or reading failed.
FetchFails(t) ==
  /\ AtPc(t, "fetch") /\ Unreliable
  /\ SetTop(t, [Top(t) EXCEPT !.pc = "return", !.response = NoResponse])
  /\ UNCHANGED <<clock, changed, cache, disk, dirs, client, reply, issued, terminated>>

\* substr and stoi throw on a header without a value and on a max-age that is no
\* number; nothing catches it.
FetchThrows(t) ==
  /\ AtPc(t, "fetch") /\ Malformed
  /\ terminated' = TRUE
  /\ UNCHANGED <<clock, changed, cache, disk, dirs, client, stack, reply, issued>>

\* Mutant: the life of the response is subtracted.
Received_Before(code, body, directive, e_tag) ==
  [NoResponse EXCEPT !.ok = TRUE, !.code = code, !.body = body,
     !.directive = directive,
     !.expiration = IF directive = "max-age" THEN clock - MaxAge ELSE NotADateTime,
     !.e_tag = e_tag]

\* Mutant: the life of the response is rounded up.
Received_Late(code, body, directive, e_tag) ==
  [NoResponse EXCEPT !.ok = TRUE, !.code = code, !.body = body,
     !.directive = directive,
     !.expiration = IF directive = "max-age" THEN clock + MaxAge + 1 ELSE NotADateTime,
     !.e_tag = e_tag]

Received(code, body, directive, e_tag) ==
  [NoResponse EXCEPT !.ok = TRUE, !.code = code, !.body = body,
     !.directive = directive,
     !.expiration = IF directive = "max-age" THEN clock + MaxAge ELSE NotADateTime,
     !.e_tag = e_tag]

\* The origin's answer for the frame's target, and whether it is to be stored.
Fetch(t) ==
  LET f == Top(t)
      v == Version(f.target)
      body == [of |-> f.target, ver |-> v]
  IN  /\ AtPc(t, "fetch") /\ f.target \notin DOMAIN Redirect
      /\ \/ /\ f.if_none_match = v
            /\ \E d \in Revalidation :
                 SetTop(t, [f EXCEPT !.pc = "return",
                   !.response = Received(304, NoBody, d,
                                         IF TagHeader = "Etag" THEN v ELSE NoTag)])
         \/ /\ f.if_none_match # v
            /\ \E code \in Codes, d \in CacheControl[f.target[2]] :
                 SetTop(t, [f EXCEPT !.pc = IF d = "max-age" THEN "open" ELSE "return",
                   !.response = Received(code, body, d,
                                         IF TagHeader = "ETag" THEN v ELSE NoTag)])
      /\ UNCHANGED <<clock, changed, cache, disk, dirs, client, reply, issued, terminated>>

(***************************************************************************)
(* MakeCache, for the path of the request whatever redirects were          *)
(* followed: the directories, the file (opening truncates it), the entry.  *)
(***************************************************************************)
\* create_directory throws under a file; nothing catches it.
OpenThrows(t) ==
  /\ AtPc(t, "open")
  /\ \E f \in FilesAbove(Top(t).path), d \in DirsAbove(Top(t).path) : Len(f) < Len(d)
  /\ terminated' = TRUE
  /\ UNCHANGED <<clock, changed, cache, disk, dirs, client, stack, reply, issued>>

\* Mutant: the entry is made before the file is written, which then is not.
Open_NoWrite(t) ==
  /\ AtPc(t, "open")
  /\ disk' = [disk EXCEPT ![Top(t).path] = [NoFile EXCEPT !.state = "empty"]]
  /\ Goto(t, "enter")
  /\ UNCHANGED <<clock, changed, cache, dirs, client, reply, issued, terminated>>

\* Mutant: the file is never created.
Open_NoFile(t) ==
  /\ AtPc(t, "open")
  /\ Goto(t, "enter")
  /\ UNCHANGED <<clock, changed, cache, disk, dirs, client, reply, issued, terminated>>

\* An open that fails is not noticed: what is written is dropped.
Open(t) ==
  LET path == Top(t).path
      opened == ~Clash(path)
  IN  /\ AtPc(t, "open")
      /\ \A f \in FilesAbove(path), d \in DirsAbove(path) : Len(d) <= Len(f)
      /\ dirs' = dirs \cup {d \in DirsAbove(path) :
                              d \in Paths => disk[d].state = "none"}
      /\ disk' = IF opened THEN [disk EXCEPT ![path] = [NoFile EXCEPT !.state = "empty"]]
                           ELSE disk
      /\ Goto(t, IF opened THEN "write" ELSE "enter")
      /\ UNCHANGED <<clock, changed, cache, client, reply, issued, terminated>>

\* Over a file another thread has written since it was truncated, the longer
\* of the two leaves its tail.
Write(t) ==
  LET f == Top(t)
  IN  /\ AtPc(t, "write")
      /\ \E state \in IF disk[f.path].state = "empty" THEN {"whole"} ELSE {"whole", "mixed"} :
           disk' = [disk EXCEPT ![f.path] =
                      [state |-> state, code |-> f.response.code, body |-> f.response.body]]
      /\ Goto(t, "enter")
      /\ UNCHANGED <<clock, changed, cache, dirs, client, reply, issued, terminated>>

Enter(t) ==
  LET f == Top(t)
  IN  /\ AtPc(t, "enter")
      /\ cache' = [cache EXCEPT ![Handler(t)][f.path] =
                     Entry(f.response.expiration, f.response.e_tag)]
      /\ Goto(t, "return")
      /\ UNCHANGED <<clock, changed, disk, dirs, client, reply, issued, terminated>>

(***************************************************************************)
(* The end of HandleRequest: of the client's, or of UpdateCache's, which   *)
(* goes on in the frame below.                                             *)
(***************************************************************************)
ReturnToClient(t) ==
  /\ AtPc(t, "return") /\ Len(stack[t]) = 1
  /\ reply' = [reply EXCEPT ![t] = Top(t).response]
  /\ stack' = [stack EXCEPT ![t] = <<>>]
  /\ UNCHANGED <<clock, changed, cache, disk, dirs, client, issued, terminated>>

\* What UpdateCache makes of the response: true ("read") or false ("fetch").
Updated(response) ==
  CASE response.ok /\ response.code = 304 /\ response.directive # "other" -> "read"
    [] response.ok /\ response.code = 200 -> "read"
    [] OTHER -> "fetch"

ReturnToUpdate(t) ==
  LET r     == Top(t).response
      below == Front(stack[t])
      f     == Last(below)
  IN  /\ Processing(t)
      /\ cache' = IF r.ok /\ r.code = 304 /\ r.directive # "other"
                    THEN [cache EXCEPT ![Handler(t)][f.path] = Entry(r.expiration, r.e_tag)]
                    ELSE cache
      /\ stack' = [stack EXCEPT ![t] = Front(below) \o <<[f EXCEPT !.pc = Updated(r)]>>]
      /\ UNCHANGED <<clock, changed, disk, dirs, client, reply, issued, terminated>>

\* The max-age of a 304 is read here, and not by HandleRequest.
UpdateThrows(t) ==
  /\ Processing(t) /\ Malformed
  /\ Top(t).response.ok /\ Top(t).response.code = 304
  /\ terminated' = TRUE
  /\ UNCHANGED <<clock, changed, cache, disk, dirs, client, stack, reply, issued>>

(***************************************************************************)
(* Two threads in the same unordered_map, at least one of them changing    *)
(* it: undefined, and taken to end the process or to do nothing wrong.     *)
(***************************************************************************)
Inserts(t) ==
  /\ AtPc(t, "check") \/ AtPc(t, "tag") \/ AtPc(t, "read")
  /\ ~cache[Handler(t)][Top(t).path].here
Changes(t) == AtPc(t, "enter") \/ AtPc(t, "erase") \/ Inserts(t) \/ Processing(t)
Looks(t) == AtPc(t, "find") \/ AtPc(t, "check") \/ AtPc(t, "tag") \/ AtPc(t, "read")

MapRace ==
  /\ \E t, u \in Threads :
       /\ t # u /\ Handler(t) = Handler(u)
       /\ Changes(t) /\ (Changes(u) \/ Looks(u))
  /\ terminated' = TRUE
  /\ UNCHANGED <<clock, changed, cache, disk, dirs, client, stack, reply, issued>>

Handle(t) ==
  \/ Find(t) \/ Check(t) \/ TakeTag(t) \/ StackOverflows(t) \/ Erase(t) \/ Read(t)
  \/ FollowRedirect(t) \/ FetchFails(t) \/ FetchThrows(t) \/ Fetch(t)
  \/ OpenThrows(t) \/ Open(t) \/ Write(t) \/ Enter(t)
  \/ ReturnToClient(t) \/ ReturnToUpdate(t) \/ UpdateThrows(t)

Next ==
  /\ ~terminated
  /\ \/ Tick
     \/ \E r \in Published : Publish(r)
     \/ \E t \in Threads : Arrive(t) \/ Handle(t)
     \/ MapRace

Spec == Init /\ [][Next]_vars

\* Every thread keeps running, and origins answer or fail.
FairSpec == Spec /\ \A t \in Threads : WF_vars(~terminated /\ Handle(t))

-----------------------------------------------------------------------------
(***************************************************************************)
(* Properties.                                                             *)
(***************************************************************************)
EntryType ==
  [here: BOOLEAN, expiration: Nat \cup {NotADateTime}, e_tag: Nat \cup {NoTag}]

BodyType == {NoBody} \cup [of: Resources, ver: Nat]

FileType ==
  [state: {"none", "empty", "whole", "mixed"}, code: {0} \cup Codes, body: BodyType]

ResponseType ==
  [ok: BOOLEAN, code: {0, 304} \cup Codes, body: BodyType, whole: BOOLEAN,
   source: {"origin", "cache"}, directive: Directive,
   expiration: Nat \cup {NotADateTime, Forever}, e_tag: Nat \cup {NoTag}]

FrameType ==
  [pc: {"find", "check", "tag", "erase", "read", "updating", "fetch", "open", "write",
        "enter", "return", "spin"},
   uri: Uris, path: Paths, target: Resources,
   if_none_match: Nat \cup {NoTag}, response: ResponseType]

\* The type invariant.
TypeOK ==
  /\ clock \in Nat
  /\ changed \in [Resources -> Seq(Nat)]
  /\ cache \in [Handlers -> [Paths -> EntryType]]
  /\ disk \in [Paths -> FileType]
  /\ \A d \in dirs : \E p \in Paths : d \in DirsAbove(p)
  /\ client \in [Threads -> [h: Handlers, uri: Uris, arrived: Nat]]
  /\ stack \in [Threads -> Seq(FrameType)]
  /\ reply \in [Threads -> ResponseType]
  /\ issued \in Nat
  /\ terminated \in BOOLEAN

\* What t's request is for.
Asked(t) == Target(Handler(t), client[t].uri)

Answered(t) == stack[t] = <<>> /\ reply[t].ok
Cached(t) == Answered(t) /\ reply[t].source = "cache"

\* Version v of resource r was its current one at time s.
CurrentAt(r, v, s) ==
  /\ v = 0 \/ changed[r][v] <= s
  /\ v = Len(changed[r]) \/ s <= changed[r][v + 1]

\* A version current at one of the times in S.
CurrentIn(body, S) == \E s \in S : CurrentAt(body.of, body.ver, s)

\* A reply from the cache is a whole one, and no older than the origin allows:
\* what it holds was the resource's current version less than MaxAge before the
\* request arrived, or later (HandleCache, UpdateCache).
CachedReplyFresh ==
  \A t \in Threads :
    Cached(t) => /\ reply[t].whole
                 /\ CurrentIn(reply[t].body, {s \in 0..clock : s + MaxAge > client[t].arrived})

\* The max-age a reply from the cache carries does not outlast what the origin
\* granted for that version (lines 322-350 write it anew).
MaxAgeGranted ==
  \A t \in Threads :
    Cached(t) => /\ reply[t].expiration # Forever
                 /\ CurrentIn(reply[t].body,
                              {s \in 0..clock : reply[t].expiration <= s + MaxAge})

\* Behind every entry of a map there is a complete file, with a response of the
\* handler's own origin for a URI that has this key.  Except where files and
\* directories clash, and while the file is being written anew, which happens
\* under an entry when UpdateCache stores an error response and refuses it.
EntryHasFile ==
  \A h \in Handlers, p \in Paths :
    /\ cache[h][p].here /\ ~Clash(p)
    /\ \A t \in Threads : ~(AtPc(t, "write") /\ Top(t).path = p)
    => /\ disk[p].state = "whole"
       /\ \E u \in Uris : PathOf(u) = p /\ <<<<Origin[h], u>>, disk[p].body.of>> \in LeadsTo

\* Whoever asked, the body is one of the resource asked for, at the origin of
\* the handler that was asked.
RepliesRight ==
  \A t \in Threads :
    Answered(t) /\ reply[t].body # NoBody => <<Asked(t), reply[t].body.of>> \in LeadsTo

\* UpdateCache is not called in the HandleRequest it calls itself: the entry it
\* updates is erased by then (UpdateCache).
UpdateNotNested == \A t \in Threads : Len(stack[t]) <= 2

\* Every request is answered, or fails, or the process ends: a stored response
\* is only read from a file that can be read to its end.
RequestsReturn ==
  \A t \in Threads : stack[t] # <<>> ~> stack[t] = <<>> \/ terminated
=============================================================================
