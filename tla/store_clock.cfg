CONSTANTS
  Projects = {}
  Actions = {a1, a2}
  Commands = {c1, c2, c3, c4}
  RecoveryIds = {r1, r2}
  Roots = {}
  Malformed = {}
  Settings = {}
  Values = {}
  Approvals = {ok}
  Legacy <- MCLegacy
  Times = {1, 2}
  Clock = {1}
  MaxRevision = 2
  MaxRebuilds = 1
  NoRow = NoRow
  NoReceipt = NoReceipt
  NoTx = NoTx
SPECIFICATION Spec
SYMMETRY IdSymmetry
INVARIANT OpenNeverFails
