--------------------------- MODULE MCProxyHandler ---------------------------
(***************************************************************************)
(* Instances of ProxyHandler.                                              *)
(***************************************************************************)
EXTENDS ProxyHandler

CONSTANTS h1, t1, t2, o1, o2

A   == <<"/", "a">>
ABC == <<"/", "a", "/", "b", "/", "c">>
X   == <<"/", "q", "x">>

\* "/a" and "/qx" under the prefix "/q", which "/qx" still has in it.
Q   == <<"/", "q">>
QA  == Q \o A
QX  == Q \o X
X2  == <<"/", "x">>

AtRoot == [h \in Handlers |-> <<"/">>]
AtQ    == [h \in Handlers |-> Q]

FirstOrigin == [h \in Handlers |-> o1]

Location(host, uri) == [host |-> host, uri |-> uri]

NoRedirect == [r \in {} |-> Location("same", r)]

\* "/qx" is moved to another host, and from there to "/a" of the first.
ThereAndBack ==
  [r \in {<<o1, X>>, <<o2, X>>} |->
     IF r = <<o1, X>> THEN Location(o2, X) ELSE Location(o1, A)]

\* "/qx" is moved to another host, which has its own "/a" there.
ToOtherHost ==
  [r \in {<<o1, X>>, <<o2, QA>>} |->
     IF r = <<o1, X>> THEN Location(o2, QA) ELSE Location("same", A)]

\* The origins let their responses for "/a" and "/a/b/c" be cached.
NotX == [u \in Uris |-> IF u = X THEN {"none"} ELSE {"max-age"}]
Always == [u \in Uris |-> {"max-age"}]
Sometimes == [u \in Uris |-> {"max-age", "other"}]

\* New versions at every origin, or none.
OneVersion == [o \in Origins |-> 1]
NoVersion == [o \in Origins |-> 0]

UriA == {A}
UrisBelowQ == {A, X, X2, QA, QX}
\* "/a" is a file, or the directory that the file for "/a/b/c" is in.
UrisDeep == {A, X, ABC}
=============================================================================
