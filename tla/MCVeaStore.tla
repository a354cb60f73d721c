----------------------------- MODULE MCVeaStore -----------------------------
(* Model values, old projects and symmetry for the runs of VeaStore.       *)
EXTENDS VeaStore, TLC

(* A new database, or one of version 1 with one project, of any root, and  *)
(* created before or after the time of the clients.                        *)
OldRow(root, created) ==
  [rev |-> 2, trust |-> "trusted", root |-> root,
   settings |-> [s \in Settings |-> CHOOSE v \in Values : TRUE],
   created |-> created, updated |-> 3, seq |-> 1]

MCLegacy ==
  {[p \in Projects |-> NoRow]} \cup
  {[p \in Projects |-> IF p = old THEN OldRow(root, created) ELSE NoRow] :
     old \in Projects, root \in Roots, created \in {1, 3}}

IdSymmetry == Permutations(Commands) \cup Permutations(RecoveryIds)

DataSymmetry ==
  IdSymmetry \cup Permutations(Projects) \cup Permutations(Roots \ Malformed)
=============================================================================
