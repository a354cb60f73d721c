------------------------------- MODULE Policy -------------------------------
(***************************************************************************)
(* The authorization boundary (crates/vea-policy): `evaluate_action`       *)
(* decides on an action an agent proposes, `approve` turns the requirement *)
(* it returns into a grant, `verify_approval` checks the grant against the *)
(* action, the policy and the broker state at the moment of use.  All are  *)
(* functions; the host that calls them is written from the crate's README  *)
(* and tests.  Between two calls everything may change: the proposal under *)
(* the same identifier, the policy, what the brokers see, the clock.       *)
(*                                                                         *)
(* What a scope or an operation names is a place (a worktree, or a         *)
(* provider with its account) and targets in it: the paths, the catalog    *)
(* entry, the credential with its destination, the target reference.  What *)
(* a scope does not name (digests, arguments, sizes) is `content`.         *)
(***************************************************************************)
EXTENDS Naturals, FiniteSets

CONSTANTS
  Proposals,      \* the actions that may be proposed
  Policies,       \* the policies that may be in force
  States,         \* what the brokers may report
  NoState,        \* a destination state that is not given
  StateDigests,
  Approvals,      \* approval identifiers
  NoApproval, NoGrant,
  Ttls,           \* the lifetimes a user may choose
  Clock,          \* the values the host clock may show
  MaxActionTtl,   \* MAX_ACTION_TTL_MS
  MaxPaths,       \* MAX_PATHS
  MaxRequests     \* bounds the decisions a host keeps

(* What each operation needs, and the scopes that name paths.              *)
CapabilityOf ==
  [read_files |-> "project_read", apply_patch |-> "project_apply_patch",
   run_broker_command |-> "broker_command",
   submit_provider_request |-> "provider_submit",
   use_credential |-> "credential_use",
   integrate_worktree |-> "worktree_integrate"]

Operations == DOMAIN CapabilityOf
Capabilities == {CapabilityOf[o] : o \in Operations}
PathCapabilities == {"project_read", "project_apply_patch"}
RuleDecisions == {"allow_without_approval", "require_approval", "deny"}

RequiresDestinationState == {"submit_provider_request", "use_credential"}

RiskClass ==
  [read_files |-> "read_only", apply_patch |-> "local_mutation",
   run_broker_command |-> "process_execution",
   submit_provider_request |-> "external_disclosure",
   use_credential |-> "credential_use", integrate_worktree |-> "git_integration"]

Reversibility ==
  [o \in Operations |->
     CASE o = "read_files" -> "no_mutation"
       [] o \in {"apply_patch", "integrate_worktree"} -> "worktree_recoverable"
       [] OTHER -> "side_effect_unknown"]

ASSUME PolicyAssumption ==
  /\ \A a \in Proposals :
       /\ a.operation.kind \in Operations
       /\ a.created \in Nat /\ a.expires \in Nat
  /\ \A p \in Policies :
       /\ p.maxTtl \in Nat
       /\ \A c \in DOMAIN p.rules : p.rules[c].decision \in RuleDecisions
                                    /\ p.rules[c].ttl \in Nat
  /\ States \subseteq [project : StateDigests, resource : StateDigests,
                      destination : StateDigests \cup {NoState}]
  /\ Clock \subseteq Nat /\ Ttls \subseteq Nat
  /\ MaxActionTtl \in Nat
  /\ MaxRequests \in Nat
  /\ NoApproval \notin Approvals

VARIABLES
  proposal, policy, state, now,   \* what is in force
  asked,       \* requirements shown to the user, with what they were made from
  grants,      \* the approval of each identifier, with what the user had seen
  performed    \* what the last step let through, if anything

vars == <<proposal, policy, state, now, asked, grants, performed>>

(* matches_action: the scope names everything the operation touches.       *)
Covers(scope, action) ==
  /\ scope.kind = CapabilityOf[action.operation.kind]
  /\ scope.project = action.project
  /\ scope.run = action.run
  /\ scope.place = action.operation.place
  /\ IF scope.kind \in PathCapabilities
     THEN action.operation.targets \subseteq scope.targets
     ELSE action.operation.targets = scope.targets

(* In scopes, operations, actions and policies `wellFormed` stands for the  *)
(* schema version, the sizes, and the syntax of identifiers, digests, paths,*)
(* references and destinations.                                            *)
ValidPaths(paths) == paths # {} /\ Cardinality(paths) <= MaxPaths

ValidScope(scope) ==
  scope.wellFormed /\ (scope.kind \in PathCapabilities => ValidPaths(scope.targets))

ValidOperation(operation) ==
  /\ operation.wellFormed
  /\ CapabilityOf[operation.kind] \in PathCapabilities => ValidPaths(operation.targets)

(* Variant with a defect: the capability need not match the operation.     *)
ValidActionUnmatched(action) ==
  /\ action.wellFormed /\ ValidScope(action.capability) /\ ValidOperation(action.operation)
  /\ action.created < action.expires
  /\ action.expires - action.created <= MaxActionTtl

ValidAction(action) ==
  /\ action.wellFormed /\ ValidScope(action.capability) /\ ValidOperation(action.operation)
  /\ action.created < action.expires
  /\ action.expires - action.created <= MaxActionTtl
  /\ Covers(action.capability, action)

(* What a grant of the policy authorizes.                                  *)
Authorizes(scope, action) == ValidScope(scope) /\ Covers(scope, action)

ValidTtl(ttl) == 0 < ttl /\ ttl <= MaxActionTtl

ValidPolicy(p) ==
  /\ p.wellFormed /\ \A scope \in p.grants : ValidScope(scope)
  /\ \A c \in DOMAIN p.rules :
       /\ p.rules[c].decision = "allow_without_approval" => c = "project_read"
       /\ p.rules[c].decision = "require_approval" => ValidTtl(p.rules[c].ttl)
  /\ ValidTtl(p.maxTtl)

ValidState(s, action) ==
  (s.destination # NoState) = (action.operation.kind \in RequiresDestinationState)

(* A digest of the canonical encoding: it separates the domains and does   *)
(* not collide.                                                            *)
Digest(domain, value) == <<domain, value>>

(* Variant with a defect: the resource is left out.                        *)
BindingDigestOfProject(action, p, s) ==
  Digest("approval-binding",
    <<Digest("action", action), Digest("policy", p), s.project, s.destination>>)

BindingDigest(action, p, s) ==
  Digest("approval-binding",
    <<Digest("action", action), Digest("policy", p), s.project, s.resource, s.destination>>)

Denied == [decision |-> "denied"]

Smaller(m, n) == IF m <= n THEN m ELSE n

Requirement(action, p, s) ==
  [action |-> Digest("action", action), policy |-> Digest("policy", p),
   binding |-> BindingDigest(action, p, s),
   maxTtl |-> Smaller(p.maxTtl, p.rules[action.capability.kind].ttl),
   id |-> action.id, created |-> action.created, expires |-> action.expires]

(* Variant with a defect: the proposal's own capability is its grant.      *)
PermittedToItself(action, p, s, t) ==
  /\ ValidAction(action) /\ ValidPolicy(p) /\ ValidState(s, action)
  /\ action.created <= t /\ t < action.expires
  /\ action.project \in DOMAIN p.trusted
  /\ p.trusted[action.project] = s.project
  /\ Covers(action.capability, action)
  /\ action.capability.kind \in DOMAIN p.rules
  /\ p.rules[action.capability.kind].decision # "deny"

(* The checks of evaluate_action that end in a denial.                     *)
Permitted(action, p, s, t) ==
  /\ ValidAction(action) /\ ValidPolicy(p) /\ ValidState(s, action)
  /\ action.created <= t /\ t < action.expires
  /\ action.project \in DOMAIN p.trusted
  /\ p.trusted[action.project] = s.project
  /\ \E scope \in p.grants : Authorizes(scope, action)
  /\ action.capability.kind \in DOMAIN p.rules
  /\ p.rules[action.capability.kind].decision # "deny"

Evaluate(action, p, s, t) ==
  IF ~ Permitted(action, p, s, t) THEN Denied
  ELSE IF p.rules[action.capability.kind].decision = "allow_without_approval"
       THEN [decision |-> "allowed_without_approval"]
       ELSE [decision |-> "approval_required", requirement |-> Requirement(action, p, s)]

(* Variant with a defect: the approval may outlive the action.             *)
MayApproveBeyond(requirement, issued, ttl) ==
  /\ 0 < ttl /\ ttl <= requirement.maxTtl
  /\ requirement.created <= issued /\ issued < requirement.expires

MayApprove(requirement, issued, ttl) ==
  /\ 0 < ttl /\ ttl <= requirement.maxTtl
  /\ requirement.created <= issued /\ issued < requirement.expires
  /\ issued + ttl <= requirement.expires

(* Variant with a defect: two digests change places.                       *)
GrantOfSwapped(requirement, decision, issued, ttl) ==
  [decision |-> decision, status |-> "unused", id |-> requirement.id,
   action |-> requirement.binding, policy |-> requirement.policy,
   binding |-> requirement.action, issued |-> issued, expires |-> issued + ttl]

GrantOf(requirement, decision, issued, ttl) ==
  [decision |-> decision, status |-> "unused", id |-> requirement.id,
   action |-> requirement.action, policy |-> requirement.policy,
   binding |-> requirement.binding, issued |-> issued, expires |-> issued + ttl]

(* Variant with a defect: the approval is good at the moment it expires.   *)
InWindowClosed(grant, t) == grant.issued <= t /\ t <= grant.expires

InWindow(grant, t) == grant.issued <= t /\ t < grant.expires

(* What verify_approval compares with the requirement it derives afresh.   *)
Answers(grant, requirement) ==
  /\ grant.issued < grant.expires
  /\ grant.expires - grant.issued <= requirement.maxTtl
  /\ requirement.created <= grant.issued
  /\ grant.expires <= requirement.expires
  /\ grant.id = requirement.id
  /\ grant.action = requirement.action
  /\ grant.policy = requirement.policy
  /\ grant.binding = requirement.binding

VerifyApproval(action, p, s, grant, t) ==
  /\ grant.decision = "approved"
  /\ grant.status = "unused"
  /\ InWindow(grant, t)
  /\ LET verdict == Evaluate(action, p, s, t)
     IN  verdict.decision = "approval_required" /\ Answers(grant, verdict.requirement)
----------------------------------------------------------------------------
Seen == [action |-> proposal, policy |-> policy, state |-> state]

Performs(approval) ==
  performed' = {[approval |-> approval, seen |-> Seen, at |-> now, granted |-> grants]}

Init ==
  /\ proposal \in Proposals /\ policy \in Policies /\ state \in States /\ now \in Clock
  /\ asked = {}
  /\ grants = [i \in Approvals |-> NoGrant]
  /\ performed = {}

(* The agent proposes another action, or another one under the same name.  *)
Propose ==
  /\ proposal' \in Proposals
  /\ performed' = {}
  /\ UNCHANGED <<policy, state, now, asked, grants>>

ChangePolicy ==
  /\ policy' \in Policies
  /\ performed' = {}
  /\ UNCHANGED <<proposal, state, now, asked, grants>>

(* Project, resource or destination change behind the brokers.             *)
Drift ==
  /\ state' \in States
  /\ performed' = {}
  /\ UNCHANGED <<proposal, policy, now, asked, grants>>

(* The host clock goes on, or is set, either way.                          *)
SetClock ==
  /\ now' \in Clock
  /\ performed' = {}
  /\ UNCHANGED <<proposal, policy, state, asked, grants>>

(* The host evaluates the action and shows what needs an approval.         *)
Request ==
  LET verdict == Evaluate(proposal, policy, state, now)
  IN  /\ verdict.decision = "approval_required"
      /\ Cardinality(asked) < MaxRequests
      /\ asked' = asked \cup {[requirement |-> verdict.requirement, seen |-> Seen]}
      /\ performed' = {}
      /\ UNCHANGED <<proposal, policy, state, now, grants>>

(* The host performs what evaluate_action allows without an approval.      *)
Allow ==
  /\ Evaluate(proposal, policy, state, now).decision = "allowed_without_approval"
  /\ Performs(NoApproval)
  /\ UNCHANGED <<proposal, policy, state, now, asked, grants>>

(* The user answers a requirement, however old it is.                      *)
Approve(i, question, ttl) ==
  /\ grants[i] = NoGrant
  /\ MayApprove(question.requirement, now, ttl)
  /\ grants' = [grants EXCEPT ![i] =
       [grant |-> GrantOf(question.requirement, "approved", now, ttl), seen |-> question.seen]]
  /\ performed' = {}
  /\ UNCHANGED <<proposal, policy, state, now, asked>>

Deny(i, question) ==
  /\ grants[i] = NoGrant
  /\ grants' = [grants EXCEPT ![i] =
       [grant |-> GrantOf(question.requirement, "denied", now, question.requirement.maxTtl),
        seen |-> question.seen]]
  /\ performed' = {}
  /\ UNCHANGED <<proposal, policy, state, now, asked>>

(* The host marks an approval as used, or takes it back.                   *)
Retire(i, status) ==
  /\ grants[i] # NoGrant
  /\ grants[i].grant.status = "unused"
  /\ grants' = [grants EXCEPT ![i].grant.status = status]
  /\ performed' = {}
  /\ UNCHANGED <<proposal, policy, state, now, asked>>

(* The host verifies an approval at the moment of use.                     *)
Authorize(i) ==
  /\ grants[i] # NoGrant
  /\ VerifyApproval(proposal, policy, state, grants[i].grant, now)
  /\ Performs(i)
  /\ UNCHANGED <<proposal, policy, state, now, asked, grants>>

Next ==
  \/ Propose \/ ChangePolicy \/ Drift \/ SetClock
  \/ Request \/ Allow
  \/ \E i \in Approvals :
       \/ \E question \in asked : Deny(i, question) \/ \E ttl \in Ttls : Approve(i, question, ttl)
       \/ \E status \in {"consumed", "revoked"} : Retire(i, status)
       \/ Authorize(i)

Spec == Init /\ [][Next]_vars
----------------------------------------------------------------------------
Requirements ==
  [action : {Digest("action", a) : a \in Proposals}, policy : {Digest("policy", p) : p \in Policies},
   binding : {BindingDigest(a, p, s) : a \in Proposals, p \in Policies, s \in States},
   maxTtl : Nat, id : {a.id : a \in Proposals}, created : Nat, expires : Nat]

Sights == [action : Proposals, policy : Policies, state : States]

GrantRecords ==
  [decision : {"approved", "denied"}, status : {"unused", "consumed", "revoked"},
   id : {a.id : a \in Proposals},
   action : {Digest("action", a) : a \in Proposals}, policy : {Digest("policy", p) : p \in Policies},
   binding : {BindingDigest(a, p, s) : a \in Proposals, p \in Policies, s \in States},
   issued : Clock, expires : Nat]

Registers == [Approvals -> [grant : GrantRecords, seen : Sights] \cup {NoGrant}]

(* The variables have their types.                                         *)
TypeOK ==
  /\ proposal \in Proposals /\ policy \in Policies /\ state \in States /\ now \in Clock
  /\ asked \subseteq [requirement : Requirements, seen : Sights]
  /\ grants \in Registers
  /\ performed \subseteq [approval : Approvals \cup {NoApproval}, seen : Sights, at : Clock,
                          granted : Registers]

(* An action is performed with an approval only if the user approved this  *)
(* very action, under this policy, with project, resource and destination  *)
(* as they are now, and the approval was neither used nor revoked: whatever*)
(* changed in between, in whatever order (PLAN.md:181, "mutation, expiry,  *)
(* target drift, or policy change invalidates it").                        *)
ApprovedAsSeen ==
  \A r \in performed : r.approval # NoApproval =>
    /\ r.granted[r.approval].seen = r.seen
    /\ r.granted[r.approval].grant.decision = "approved"
    /\ r.granted[r.approval].grant.status = "unused"

(* What is performed lies inside the lifetime of the action; if it was     *)
(* approved, also inside that of the approval, which the action's contains *)
(* and neither the policy nor its rule for this kind of operation exceeds. *)
WithinLifetime ==
  \A r \in performed :
    /\ r.seen.action.created <= r.at /\ r.at < r.seen.action.expires
    /\ r.seen.action.expires <= r.seen.action.created + MaxActionTtl
    /\ r.approval # NoApproval =>
         LET given == r.granted[r.approval].grant
             rule == r.seen.policy.rules[CapabilityOf[r.seen.action.operation.kind]]
         IN  /\ r.seen.action.created <= given.issued /\ given.issued <= r.at
             /\ r.at < given.expires /\ given.expires <= r.seen.action.expires
             /\ given.expires <= given.issued + rule.ttl
             /\ given.expires <= given.issued + r.seen.policy.maxTtl

(* Whatever policy is in force, only what changes nothing and leaves the   *)
(* machine by no way is performed without an approval.                     *)
OnlyReadsUnapproved ==
  \A r \in performed : r.approval = NoApproval =>
    /\ RiskClass[r.seen.action.operation.kind] = "read_only"
    /\ Reversibility[r.seen.action.operation.kind] = "no_mutation"

(* What an operation touches, and what the host grants.                    *)
Touched(action) ==
  {<<CapabilityOf[action.operation.kind], action.project, action.run, action.operation.place, x>> :
     x \in action.operation.targets}
Granted(p) ==
  UNION {{<<scope.kind, scope.project, scope.run, scope.place, x>> : x \in scope.targets} :
     scope \in p.grants}

(* "An action can never grant itself authority" (vea-policy/README.md):    *)
(* all that a performed operation touches is granted by the policy it was  *)
(* performed under, whatever capability the proposal names, with or without*)
(* an approval, in a project that is trusted in its present state.         *)
Confined ==
  \A r \in performed :
    /\ Touched(r.seen.action) \subseteq Granted(r.seen.policy)
    /\ r.seen.policy.trusted[r.seen.action.project] = r.seen.state.project

(* An approval the user gave is good for all of its window: as long as what*)
(* the user saw is unchanged and the approval neither used nor revoked, it *)
(* passes.                                                                 *)
ApprovalHonoured ==
  \A i \in Approvals :
    /\ grants[i] # NoGrant
    /\ grants[i].seen = Seen
    /\ grants[i].grant.decision = "approved" /\ grants[i].grant.status = "unused"
    /\ InWindow(grants[i].grant, now)
    => VerifyApproval(proposal, policy, state, grants[i].grant, now)
=============================================================================
