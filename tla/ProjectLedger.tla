---------------------------- MODULE ProjectLedger ----------------------------
(***************************************************************************)
(* What vea-store promises about projects (crates/vea-store/README.md):    *)
(* the revision of a project is a token that whoever changes it must know  *)
(* and that every change replaces; a command takes effect at most once; no *)
(* two projects have the same root; trust that was revoked returns only by *)
(* way of untrusted; and the projects of an older version are taken over   *)
(* as they are, all together.                                              *)
(***************************************************************************)
EXTENDS Naturals

CONSTANTS
  Projects, Commands, Roots, Settings, Values,
  Old           \* the projects that an older version may have left

VARIABLES
  project,      \* what is known of each project
  done          \* the changes that were made: the command, the project, and
                \* the revision that the author of the command knew

Absent == [rev |-> 0]

Present(p) == project[p].rev > 0

Init == project = [p \in Projects |-> Absent] /\ done = {}

Adopt ==
  /\ done = {} /\ \A p \in Projects : ~Present(p)
  /\ project' \in Old
  /\ UNCHANGED done

(* A command that has not been used spends the revision it knows.          *)
Spend(c, p) ==
  /\ \A change \in done : change.cid # c
  /\ done' = done \cup {[cid |-> c, id |-> p, expected |-> project[p].rev]}

Becomes(p, root, trust, settings) ==
  project' = [project EXCEPT ![p] = [rev |-> project[p].rev + 1, root |-> root,
                                     trust |-> trust, settings |-> settings]]

Create(p, root, settings) ==
  /\ ~Present(p)
  /\ \A q \in Projects : Present(q) => project[q].root # root
  /\ Becomes(p, root, "untrusted", settings)

SetTrust(p, trust) ==
  /\ Present(p)
  /\ project[p].trust = "revoked" => trust # "trusted"
  /\ Becomes(p, project[p].root, trust, project[p].settings)

Set(p, setting, value) ==
  /\ Present(p)
  /\ Becomes(p, project[p].root, project[p].trust,
             [project[p].settings EXCEPT ![setting] = value])

Change(p) ==
  \/ \E root \in Roots, settings \in [Settings -> Values] : Create(p, root, settings)
  \/ \E trust \in {"untrusted", "trusted", "revoked"} : SetTrust(p, trust)
  \/ \E setting \in Settings, value \in Values : Set(p, setting, value)

Next == Adopt \/ \E c \in Commands, p \in Projects : Spend(c, p) /\ Change(p)

Spec == Init /\ [][Next]_<<project, done>>
=============================================================================
