--------------------------- MODULE MCWriteScopes ---------------------------
(***************************************************************************)
(* All pairs of short scope lists, for the checks of ScopeOverlap.         *)
(***************************************************************************)
EXTENDS ScopeOverlap

CONSTANT MaxSegments   \* bound on the segments of a scope

(* Literals are strings of letters: what `a*` matches begins with a.       *)
MCNames == {<<"a">>, <<"a", "b">>}
MCEmpty == <<>>

MCScopes == UNION {[1..n -> Segments] : n \in 0..MaxSegments}
MCPaths == UNION {[1..n -> Names] : n \in 1..(MaxSegments + 1)}
=============================================================================
