---------------------------- MODULE WriteScopes ----------------------------
(***************************************************************************)
(* When two tasks may write the same files: scopePrefix and                *)
(* writeScopesConflict of packages/scheduler.                              *)
(*                                                                         *)
(* A scope is a project-relative glob with forward slashes, a sequence of  *)
(* segments.  A segment of kind "name" is a literal; the other kinds have  *)
(* a wildcard after the literal they begin with, which may be empty: src,  *)
(* src*, *, and the ** that spans directories.                             *)
(***************************************************************************)
EXTENDS Integers, SequencesExt

CONSTANTS
  Names,     \* the literals that segments are made of
  Empty      \* the empty literal

ASSUME NamesAssumption == Empty \notin Names

Name(n) == [kind |-> "name", lit |-> n]
Star(n) == [kind |-> "star", lit |-> n]
Deep    == [kind |-> "deep", lit |-> Empty]

Segments == {Name(n) : n \in Names} \cup {Star(n) : n \in Names \cup {Empty}} \cup {Deep}

(* The empty scope, * and ** say nothing about where a task writes.        *)
Unknown(scope) == scope \in {<<>>, <<Deep>>, <<Star(Empty)>>}

Wildcards(scope) == {i \in 1..Len(scope) : scope[i].kind # "name"}

(* What stands before the first wildcard.  A literal that the wildcard's   *)
(* own segment begins with becomes a last name of its own; a wildcard at   *)
(* the very beginning leaves the empty string.                             *)
ScopePrefix(scope) ==
  LET n == IF Wildcards(scope) = {} THEN Len(scope)
           ELSE (CHOOSE i \in Wildcards(scope) : \A j \in Wildcards(scope) : i <= j)
  IN  [i \in 1..(IF scope[n].lit = Empty THEN n - 1 ELSE n) |-> scope[i].lit]

(* Variant with a defect: only the right scope may contain the left one.   *)
MeetOneWay(p, q) == p = q \/ (p # <<>> /\ IsPrefix(p, q))

(* Equal, or one followed by a slash begins the other.                     *)
Meet(p, q) == p = q \/ (p # <<>> /\ IsPrefix(p, q)) \/ (q # <<>> /\ IsPrefix(q, p))

Before(a, b) == a[1] < b[1] \/ (a[1] = b[1] /\ a[2] < b[2])

(* The first pair that is unknown or meets decides.                        *)
Conflict(left, right, unknownConflicts) ==
  IF left = <<>> \/ right = <<>> THEN unknownConflicts
  ELSE LET pairs == (1..Len(left)) \X (1..Len(right))
           unknown(a) == Unknown(left[a[1]]) \/ Unknown(right[a[2]])
       IN  \E a \in pairs :
             /\ IF unknown(a) THEN unknownConflicts
                ELSE Meet(ScopePrefix(left[a[1]]), ScopePrefix(right[a[2]]))
             /\ unknownConflicts \/ \A b \in pairs : Before(b, a) => ~unknown(b)
=============================================================================
