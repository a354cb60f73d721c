CONSTANTS
  Proposals <- MCProposals
  Policies <- MCPolicies
  States <- MCStates
  NoState = NoState
  StateDigests = {"clean", "dirty"}
  Approvals = {"approval"}
  NoApproval = NoApproval
  NoGrant = NoGrant
  Ttls = {0, 1, 2, 3}
  Clock = {0, 1, 2, 3, 4}
  MaxActionTtl = 3
  MaxPaths = 2
  MaxRequests = 1
SPECIFICATION Spec
INVARIANTS TypeOK ApprovedAsSeen WithinLifetime OnlyReadsUnapproved Confined ApprovalHonoured
