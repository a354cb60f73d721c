---------------------------- MODULE ScopeOverlap ----------------------------
(***************************************************************************)
(* Lists of write scopes, and the files that each scope names: does        *)
(* writeScopesConflict find every pair of lists that overlap?              *)
(***************************************************************************)
EXTENDS WriteScopes

CONSTANTS
  Scopes,       \* the globs that tasks declare
  Paths,        \* the files there are, each a sequence of names
  MaxScopes     \* bound on the scopes of both lists together

ASSUME ScopesAssumption ==
  /\ Scopes \subseteq Seq(Segments)
  /\ Paths \subseteq Seq(Names)
  /\ MaxScopes \in Nat

VARIABLES left, right

SegmentMatches(segment, name) ==
  IF segment.kind = "name" THEN segment.lit = name ELSE IsPrefix(segment.lit, name)

(* The reference: the files that a glob names.  A path is cut into one     *)
(* part for each segment; ** takes any number of names, another segment    *)
(* one that it matches.                                                    *)
Cuts(scope, path) ==
  {cut \in [0..Len(scope) -> 0..Len(path)] :
     /\ cut[0] = 0 /\ cut[Len(scope)] = Len(path)
     /\ \A i \in 1..Len(scope) :
          IF scope[i].kind = "deep" THEN cut[i - 1] <= cut[i]
          ELSE cut[i] = cut[i - 1] + 1 /\ SegmentMatches(scope[i], path[cut[i]])}

Files == [scope \in Scopes |-> {path \in Paths : Cuts(scope, path) # {}}]

Overlap(l, r) == \E i \in 1..Len(l), j \in 1..Len(r) : Files[l[i]] \cap Files[r[j]] # {}

(* A wildcard starts a segment, and not the first one unless it is all     *)
(* there is.                                                               *)
Aligned(scope) ==
  \/ Len(scope) = 1 /\ scope[1].lit = Empty
  \/ \A i \in Wildcards(scope) :
       (\A j \in Wildcards(scope) : i <= j) => i > 1 /\ scope[i].lit = Empty

ScopesInit == left = <<>> /\ right = <<>>

Room == Len(left) + Len(right) < MaxScopes

DeclareLeft(scope)  == Room /\ left' = Append(left, scope) /\ UNCHANGED right
DeclareRight(scope) == Room /\ right' = Append(right, scope) /\ UNCHANGED left

ScopesNext == \E scope \in Scopes : DeclareLeft(scope) \/ DeclareRight(scope)

ScopesSpec == ScopesInit /\ [][ScopesNext]_<<left, right>>

-----------------------------------------------------------------------------
(* The promise of docs/PLAN.md for globs of every form: a task is kept     *)
(* back when its write set overlaps that of a running one.                 *)
OverlapConflicts == Overlap(left, right) => Conflict(left, right, TRUE)

(* In conservative mode no two overlapping lists pass for disjoint, if     *)
(* every wildcard starts a segment below a first literal one.              *)
AlignedOverlapConflicts ==
  (\A i \in 1..Len(left) : Aligned(left[i])) /\ (\A i \in 1..Len(right) : Aligned(right[i]))
    => OverlapConflicts

(* In conservative mode it does not matter which of two tasks is running   *)
(* and which one waits.                                                    *)
ConflictIsSymmetric == Conflict(left, right, TRUE) = Conflict(right, left, TRUE)
=============================================================================
