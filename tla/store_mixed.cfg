CONSTANTS
  Projects = {p1, p2}
  Actions = {a1}
  Commands = {c1, c2, c3}
  RecoveryIds = {r1}
  Roots = {k1, k2, bad}
  Malformed = {bad}
  Settings = {name}
  Values = {v1, v2}
  Approvals = {ok}
  Legacy <- MCLegacy
  Times = {2}
  Clock = {1, 2}
  MaxRevision = 3
  MaxRebuilds = 1
  NoRow = NoRow
  NoReceipt = NoReceipt
  NoTx = NoTx
SPECIFICATION Spec
SYMMETRY DataSymmetry
INVARIANTS TypeOK StartupAcceptsLedger ProjectionsMatchReplay OneWinnerPerRevision AuditComplete RetryIsReplayed LedgerDamageIsDetected
PROPERTIES LedgerIsAppendOnly ImplementsProjectLedger
