-------------------------- MODULE MCProcessRequest --------------------------
(***************************************************************************)
(* URIs of up to three segments over "a" and the empty text (so "/", "//", *)
(* "/a", "/a/", "/a/a" ... occur), against every set of configured keys    *)
(* of up to two segments and one of three.                                 *)
(***************************************************************************)
EXTENDS ProcessRequest

UpTo(n) == UNION {[1..k -> Segment] : k \in 1..n}

SegmentSet == {"", "a"}
PathSet == UpTo(3)
KeySet == UpTo(2) \cup {<<"a", "a", "a">>}
=============================================================================
