---------------------------- MODULE PolicyProofs ----------------------------
(***************************************************************************)
(* Proofs that the properties of Policy hold for any proposals, policies,  *)
(* broker states, clocks and lifetimes.  An approval carries digests, not  *)
(* the action itself: the invariant says which of the things that the user *)
(* has seen each question and each approval stands for.                    *)
(***************************************************************************)
EXTENDS Policy, TLAPS

(* What was seen asked for an approval, leaving the clock aside.           *)
NeedsApproval(seen) ==
  /\ ValidAction(seen.action) /\ ValidPolicy(seen.policy)
  /\ ValidState(seen.state, seen.action)
  /\ seen.action.project \in DOMAIN seen.policy.trusted
  /\ seen.policy.trusted[seen.action.project] = seen.state.project
  /\ \E scope \in seen.policy.grants : Authorizes(scope, seen.action)
  /\ seen.action.capability.kind \in DOMAIN seen.policy.rules
  /\ seen.policy.rules[seen.action.capability.kind].decision = "require_approval"

RequirementOf(seen) == Requirement(seen.action, seen.policy, seen.state)

QuestionsSound ==
  \A q \in asked : NeedsApproval(q.seen) /\ q.requirement = RequirementOf(q.seen)

(* The window an approval must have.                                       *)
WindowFits(grant, requirement) ==
  /\ grant.issued < grant.expires
  /\ grant.expires <= grant.issued + requirement.maxTtl
  /\ requirement.created <= grant.issued
  /\ grant.expires <= requirement.expires

Binds(grant, requirement) ==
  /\ grant.id = requirement.id
  /\ grant.action = requirement.action
  /\ grant.policy = requirement.policy
  /\ grant.binding = requirement.binding
  /\ grant.decision = "approved" => WindowFits(grant, requirement)

GrantsSound ==
  \A i \in Approvals : grants[i] # NoGrant =>
    NeedsApproval(grants[i].seen) /\ Binds(grants[i].grant, RequirementOf(grants[i].seen))

PerformedSound == ApprovedAsSeen /\ WithinLifetime /\ OnlyReadsUnapproved /\ Confined

IInv == TypeOK /\ QuestionsSound /\ GrantsSound /\ PerformedSound
----------------------------------------------------------------------------
(* The requirement of an action has its type.                              *)
LEMMA RequirementType ==
  ASSUME NEW a \in Proposals, NEW p \in Policies, NEW s \in States,
         a.capability.kind \in DOMAIN p.rules
  PROVE  /\ Requirement(a, p, s) \in Requirements
         /\ Requirement(a, p, s).maxTtl \in Nat
         /\ Requirement(a, p, s).maxTtl <= p.maxTtl
         /\ Requirement(a, p, s).maxTtl <= p.rules[a.capability.kind].ttl
<1>1. p.maxTtl \in Nat /\ p.rules[a.capability.kind].ttl \in Nat
  BY PolicyAssumption
<1>2. a.created \in Nat /\ a.expires \in Nat
  BY PolicyAssumption
<1> DEFINE m == Smaller(p.maxTtl, p.rules[a.capability.kind].ttl)
<1>3. m \in Nat /\ m <= p.maxTtl /\ m <= p.rules[a.capability.kind].ttl
  BY <1>1 DEF Smaller
<1> HIDE DEF m
<1>4. Requirement(a, p, s) =
        [action |-> Digest("action", a), policy |-> Digest("policy", p),
         binding |-> BindingDigest(a, p, s), maxTtl |-> m,
         id |-> a.id, created |-> a.created, expires |-> a.expires]
  BY DEF Requirement, m
<1> QED
  BY <1>2, <1>3, <1>4 DEF Requirements

(* When evaluate_action asks for an approval, and what it asks for.        *)
LEMMA EvaluateAsks ==
  ASSUME NEW a \in Proposals, NEW p \in Policies, NEW s \in States, NEW t \in Clock,
         Evaluate(a, p, s, t).decision = "approval_required"
  PROVE  /\ Permitted(a, p, s, t)
         /\ p.rules[a.capability.kind].decision = "require_approval"
         /\ Evaluate(a, p, s, t).requirement = Requirement(a, p, s)
<1>1. Permitted(a, p, s, t)
  BY DEF Evaluate, Denied
<1>2. p.rules[a.capability.kind].decision # "allow_without_approval"
  BY <1>1 DEF Evaluate
<1>3. a.capability.kind \in DOMAIN p.rules /\ p.rules[a.capability.kind].decision # "deny"
  BY <1>1 DEF Permitted
<1>4. p.rules[a.capability.kind].decision \in RuleDecisions
  BY <1>3, PolicyAssumption
<1>5. p.rules[a.capability.kind].decision = "require_approval"
  BY <1>2, <1>3, <1>4 DEF RuleDecisions
<1>6. Evaluate(a, p, s, t).requirement = Requirement(a, p, s)
  BY <1>1, <1>2 DEF Evaluate
<1> QED  BY <1>1, <1>5, <1>6

(* The other way round: what needs an approval gets asked for one.         *)
LEMMA AskedAgain ==
  ASSUME NEW a \in Proposals, NEW p \in Policies, NEW s \in States, NEW t \in Clock,
         NeedsApproval([action |-> a, policy |-> p, state |-> s]),
         a.created <= t, t < a.expires
  PROVE  /\ Evaluate(a, p, s, t).decision = "approval_required"
         /\ Evaluate(a, p, s, t).requirement = Requirement(a, p, s)
<1>1. p.rules[a.capability.kind].decision = "require_approval"
  BY DEF NeedsApproval
<1>2. Permitted(a, p, s, t)
  BY <1>1 DEF Permitted, NeedsApproval
<1> QED
  BY <1>1, <1>2 DEF Evaluate

(* Two broker states with the same digests are the same.                   *)
LEMMA SameState ==
  ASSUME NEW s \in States, NEW u \in States,
         s.project = u.project, s.resource = u.resource, s.destination = u.destination
  PROVE  s = u
<1> DEFINE R == [project : StateDigests, resource : StateDigests,
                 destination : StateDigests \cup {NoState}]
<1>1. s \in R /\ u \in R
  BY PolicyAssumption
<1>2. s = [project |-> s.project, resource |-> s.resource, destination |-> s.destination]
  BY <1>1
<1>3. u = [project |-> u.project, resource |-> u.resource, destination |-> u.destination]
  BY <1>1
<1> QED  BY <1>2, <1>3

(* The digests bind: two requirements with the same binding were made from *)
(* the same action, policy and broker state.                               *)
LEMMA BindingIsInjective ==
  ASSUME NEW a \in Proposals, NEW p \in Policies, NEW s \in States,
         NEW b \in Proposals, NEW q \in Policies, NEW u \in States,
         BindingDigest(a, p, s) = BindingDigest(b, q, u)
  PROVE  a = b /\ p = q /\ s = u
<1>1. /\ a = b /\ p = q
      /\ s.project = u.project /\ s.resource = u.resource /\ s.destination = u.destination
  BY DEF BindingDigest, Digest
<1> QED  BY <1>1, SameState
----------------------------------------------------------------------------
(* What is covered is touched only where the scope grants it.              *)
LEMMA CoveredIsGranted ==
  ASSUME NEW a \in Proposals, NEW p \in Policies,
         \E scope \in p.grants : Authorizes(scope, a)
  PROVE  Touched(a) \subseteq Granted(p)
<1>1. PICK scope \in p.grants : Authorizes(scope, a)
  OBVIOUS
<1>2. a.operation.targets \subseteq scope.targets
  BY <1>1 DEF Covers, Authorizes
<1> DEFINE G == {<<scope.kind, scope.project, scope.run, scope.place, x>> : x \in scope.targets}
<1>3. Touched(a) \subseteq G
  BY <1>1, <1>2 DEF Touched, Covers, Authorizes
<1>4. G \subseteq Granted(p)
  BY DEF Granted
<1> QED  BY <1>3, <1>4

(* The lifetime of a permitted action.                                     *)
LEMMA PermittedLifetime ==
  ASSUME NEW a \in Proposals, ValidAction(a)
  PROVE  /\ a.capability.kind = CapabilityOf[a.operation.kind]
         /\ a.expires <= a.created + MaxActionTtl
<1>1. a.created \in Nat /\ a.expires \in Nat /\ MaxActionTtl \in Nat
  BY PolicyAssumption
<1> QED  BY <1>1 DEF ValidAction, Covers
----------------------------------------------------------------------------
(* Every action keeps the types.                                           *)
LEMMA InitTyped == Init => TypeOK
<1> SUFFICES ASSUME Init PROVE TypeOK
  OBVIOUS
<1>1. grants \in Registers
  BY DEF Init, Registers
<1> QED  BY <1>1 DEF Init, TypeOK

(* What is in force is what the user may see.                             *)
LEMMA SeenTyped == TypeOK => Seen \in Sights
  BY DEF TypeOK, Seen, Sights

(* Performing keeps the types of what was performed.                       *)
LEMMA PerformsTyped ==
  ASSUME TypeOK, NEW x \in Approvals \cup {NoApproval}, Performs(x)
  PROVE  performed' \subseteq [approval : Approvals \cup {NoApproval}, seen : Sights,
                               at : Clock, granted : Registers]
<1>1. Seen \in Sights
  BY SeenTyped
<1>2. now \in Clock /\ grants \in Registers
  BY DEF TypeOK
<1> QED  BY <1>1, <1>2 DEF Performs

(* A grant made from a requirement has its type.                           *)
LEMMA GrantTyped ==
  ASSUME NEW r \in Requirements, NEW d \in {"approved", "denied"}, NEW t \in Clock, NEW ttl \in Nat
  PROVE  GrantOf(r, d, t, ttl) \in GrantRecords
<1>1. t \in Nat
  BY PolicyAssumption
<1>2. t + ttl \in Nat
  BY <1>1
<1> QED  BY <1>2 DEF GrantOf, GrantRecords, Requirements

(* The window of a grant is a pair of numbers.                             *)
LEMMA GrantTimes ==
  ASSUME NEW g \in GrantRecords
  PROVE  g.issued \in Nat /\ g.expires \in Nat
<1>1. g.issued \in Clock /\ g.expires \in Nat
  BY DEF GrantRecords
<1> QED  BY <1>1, PolicyAssumption

(* Retiring an approval changes its status and nothing else.               *)
LEMMA RetireEffect ==
  ASSUME TypeOK, NEW i \in Approvals, NEW status \in {"consumed", "revoked"}, Retire(i, status)
  PROVE  /\ grants' \in Registers
         /\ \A j \in Approvals \ {i} : grants'[j] = grants[j]
         /\ grants'[i].seen = grants[i].seen
         /\ grants'[i].grant = [grants[i].grant EXCEPT !.status = status]
<1>1. grants[i] \in [grant : GrantRecords, seen : Sights]
  BY DEF TypeOK, Registers, Retire
<1> DEFINE g == [grants[i].grant EXCEPT !.status = status]
<1>2. g \in GrantRecords
  BY <1>1 DEF GrantRecords
<1>3. [grants[i] EXCEPT !.grant = g] = [grant |-> g, seen |-> grants[i].seen]
  BY <1>1
<1>4. grants' = [grants EXCEPT ![i] = [grants[i] EXCEPT !.grant = g]]
  BY DEF Retire
<1> HIDE DEF g
<1>5. grants' = [grants EXCEPT ![i] = [grant |-> g, seen |-> grants[i].seen]]
  BY <1>3, <1>4
<1>6. grants \in Registers /\ grants[i].seen \in Sights
  BY <1>1 DEF TypeOK
<1>7. /\ grants' \in Registers
      /\ grants'[i] = [grant |-> g, seen |-> grants[i].seen]
      /\ \A j \in Approvals \ {i} : grants'[j] = grants[j]
  BY <1>2, <1>5, <1>6 DEF Registers
<1> QED  BY <1>7 DEF g
----------------------------------------------------------------------------
(* The host asks: types and meaning of the new question.                   *)
LEMMA RequestKeeps == IInv /\ Request => IInv'
<1> SUFFICES ASSUME IInv, Request PROVE IInv'
  OBVIOUS
<1> DEFINE verdict == Evaluate(proposal, policy, state, now)
           q == [requirement |-> verdict.requirement, seen |-> Seen]
<1>1. /\ verdict.decision = "approval_required"
      /\ asked' = asked \cup {q}
      /\ performed' = {}
      /\ UNCHANGED <<proposal, policy, state, now, grants>>
  BY DEF Request
<1>2. proposal \in Proposals /\ policy \in Policies /\ state \in States /\ now \in Clock
  BY DEF IInv, TypeOK
<1>3. /\ Permitted(proposal, policy, state, now)
      /\ policy.rules[proposal.capability.kind].decision = "require_approval"
      /\ verdict.requirement = Requirement(proposal, policy, state)
  BY <1>1, <1>2, EvaluateAsks
<1>4. NeedsApproval(Seen)
  BY <1>3 DEF NeedsApproval, Seen, Permitted
<1>5. verdict.requirement = RequirementOf(Seen)
  BY <1>3 DEF RequirementOf, Seen
<1>6. Seen \in Sights
  BY SeenTyped DEF IInv
<1>7. verdict.requirement \in Requirements
  BY <1>2, <1>3, RequirementType DEF Permitted
<1> HIDE DEF verdict
<1>8. q.requirement = verdict.requirement /\ q.seen = Seen
  OBVIOUS
<1>9. q \in [requirement : Requirements, seen : Sights]
  BY <1>6, <1>7
<1> HIDE DEF q
<1>10. TypeOK'
  BY <1>1, <1>2, <1>9 DEF IInv, TypeOK
<1>11. QuestionsSound'
  BY <1>1, <1>4, <1>5, <1>8 DEF IInv, QuestionsSound
<1>12. GrantsSound'
  BY <1>1 DEF IInv, GrantsSound
<1>13. PerformedSound'
  BY <1>1 DEF PerformedSound, ApprovedAsSeen, WithinLifetime, OnlyReadsUnapproved, Confined
<1> QED  BY <1>10, <1>11, <1>12, <1>13 DEF IInv

(* What the user answers, either way, is bound to what was seen.           *)
LEMMA AnswerKeeps ==
  ASSUME NEW i \in Approvals, NEW q \in asked, NEW ttl \in Nat, NEW d \in {"approved", "denied"}
  PROVE  /\ IInv
         /\ d = "approved" => MayApprove(q.requirement, now, ttl)
         /\ grants' = [grants EXCEPT ![i] =
              [grant |-> GrantOf(q.requirement, d, now, ttl), seen |-> q.seen]]
         /\ performed' = {}
         /\ UNCHANGED <<proposal, policy, state, now, asked>>
         => IInv'
<1> SUFFICES ASSUME IInv,
                    d = "approved" => MayApprove(q.requirement, now, ttl),
                    grants' = [grants EXCEPT ![i] =
                      [grant |-> GrantOf(q.requirement, d, now, ttl), seen |-> q.seen]],
                    performed' = {},
                    UNCHANGED <<proposal, policy, state, now, asked>>
             PROVE  IInv'
  OBVIOUS
<1> DEFINE g == GrantOf(q.requirement, d, now, ttl)
<1>1. q \in [requirement : Requirements, seen : Sights] /\ now \in Clock /\ grants \in Registers
  BY DEF IInv, TypeOK
<1>2. q.requirement \in Requirements /\ q.seen \in Sights
  BY <1>1
<1>3. g \in GrantRecords
  BY <1>1, <1>2, GrantTyped
<1>4. NeedsApproval(q.seen) /\ q.requirement = RequirementOf(q.seen)
  BY DEF IInv, QuestionsSound
<1>5. Binds(g, RequirementOf(q.seen))
  <2>1. /\ g.id = q.requirement.id /\ g.action = q.requirement.action
        /\ g.policy = q.requirement.policy /\ g.binding = q.requirement.binding
        /\ g.decision = d /\ g.issued = now /\ g.expires = now + ttl
    BY DEF GrantOf
  <2>2. /\ now \in Nat /\ q.requirement.maxTtl \in Nat
        /\ q.requirement.created \in Nat /\ q.requirement.expires \in Nat
    BY <1>1, <1>2, PolicyAssumption DEF Requirements
  <2> HIDE DEF g
  <2>3. d = "approved" => WindowFits(g, q.requirement)
    BY <2>1, <2>2 DEF MayApprove, WindowFits
  <2> QED  BY <1>4, <2>1, <2>3 DEF Binds
<1> HIDE DEF g
<1>6. /\ grants' \in Registers
      /\ grants'[i] = [grant |-> g, seen |-> q.seen]
      /\ \A j \in Approvals \ {i} : grants'[j] = grants[j]
  BY <1>1, <1>2, <1>3 DEF Registers, g
<1>7. TypeOK'
  BY <1>6 DEF IInv, TypeOK
<1>8. QuestionsSound'
  BY DEF IInv, QuestionsSound
<1>9. GrantsSound'
  <2> SUFFICES ASSUME NEW j \in Approvals, grants'[j] # NoGrant
               PROVE  /\ NeedsApproval(grants'[j].seen)
                      /\ Binds(grants'[j].grant, RequirementOf(grants'[j].seen))
    BY DEF GrantsSound
  <2>1. CASE j = i
    BY <1>4, <1>5, <1>6, <2>1
  <2>2. CASE j # i
    BY <1>6, <2>2 DEF IInv, GrantsSound
  <2> QED  BY <2>1, <2>2
<1>10. PerformedSound'
  BY DEF PerformedSound, ApprovedAsSeen, WithinLifetime, OnlyReadsUnapproved, Confined
<1> QED  BY <1>7, <1>8, <1>9, <1>10 DEF IInv

(* Retiring an approval leaves all others, and what it binds, as they are. *)
LEMMA RetireKeeps ==
  ASSUME NEW i \in Approvals, NEW status \in {"consumed", "revoked"}
  PROVE  IInv /\ Retire(i, status) => IInv'
<1> SUFFICES ASSUME IInv, Retire(i, status) PROVE IInv'
  OBVIOUS
<1>1. /\ grants' \in Registers
      /\ \A j \in Approvals \ {i} : grants'[j] = grants[j]
      /\ grants'[i].seen = grants[i].seen
      /\ grants'[i].grant = [grants[i].grant EXCEPT !.status = status]
  BY RetireEffect DEF IInv
<1>2. performed' = {} /\ UNCHANGED <<proposal, policy, state, now, asked>> /\ grants[i] # NoGrant
  BY DEF Retire
<1>3. TypeOK'
  BY <1>1, <1>2 DEF IInv, TypeOK
<1>4. QuestionsSound'
  BY <1>2 DEF IInv, QuestionsSound
<1>5. GrantsSound'
  <2> SUFFICES ASSUME NEW j \in Approvals, grants'[j] # NoGrant
               PROVE  /\ NeedsApproval(grants'[j].seen)
                      /\ Binds(grants'[j].grant, RequirementOf(grants'[j].seen))
    BY DEF GrantsSound
  <2>1. CASE j = i
    <3>1. NeedsApproval(grants[i].seen) /\ Binds(grants[i].grant, RequirementOf(grants[i].seen))
      BY <1>2 DEF IInv, GrantsSound
    <3>2. grants[i].grant \in GrantRecords
      BY <1>2 DEF IInv, TypeOK, Registers
    <3>3. /\ grants'[i].grant.id = grants[i].grant.id
          /\ grants'[i].grant.action = grants[i].grant.action
          /\ grants'[i].grant.policy = grants[i].grant.policy
          /\ grants'[i].grant.binding = grants[i].grant.binding
          /\ grants'[i].grant.decision = grants[i].grant.decision
          /\ grants'[i].grant.issued = grants[i].grant.issued
          /\ grants'[i].grant.expires = grants[i].grant.expires
      BY <1>1, <3>2 DEF GrantRecords
    <3> QED  BY <1>1, <2>1, <3>1, <3>3 DEF Binds, WindowFits
  <2>2. CASE j # i
    BY <1>1, <2>2 DEF IInv, GrantsSound
  <2> QED  BY <2>1, <2>2
<1>6. PerformedSound'
  BY <1>2 DEF PerformedSound, ApprovedAsSeen, WithinLifetime, OnlyReadsUnapproved, Confined
<1> QED  BY <1>3, <1>4, <1>5, <1>6 DEF IInv
----------------------------------------------------------------------------
(* An action that needs no approval reads, and touches what is granted.    *)
LEMMA AllowKeeps == IInv /\ Allow => IInv'
<1> SUFFICES ASSUME IInv, Allow PROVE IInv'
  OBVIOUS
<1>1. /\ Evaluate(proposal, policy, state, now).decision = "allowed_without_approval"
      /\ Performs(NoApproval)
      /\ UNCHANGED <<proposal, policy, state, now, asked, grants>>
  BY DEF Allow
<1>2. proposal \in Proposals /\ policy \in Policies /\ state \in States /\ now \in Clock
  BY DEF IInv, TypeOK
<1>3. Permitted(proposal, policy, state, now)
  BY <1>1 DEF Evaluate, Denied
<1>4. policy.rules[proposal.capability.kind].decision = "allow_without_approval"
  BY <1>1, <1>3 DEF Evaluate
<1>5. proposal.capability.kind = "project_read"
  BY <1>3, <1>4 DEF Permitted, ValidPolicy
<1>6. /\ proposal.capability.kind = CapabilityOf[proposal.operation.kind]
      /\ proposal.expires <= proposal.created + MaxActionTtl
  BY <1>2, <1>3, PermittedLifetime DEF Permitted
<1>7. proposal.operation.kind = "read_files"
  BY <1>2, <1>5, <1>6, PolicyAssumption DEF CapabilityOf, Operations
<1>8. TypeOK'
  BY <1>1, PerformsTyped DEF IInv, TypeOK
<1>9. QuestionsSound' /\ GrantsSound'
  BY <1>1 DEF IInv, QuestionsSound, GrantsSound
<1> DEFINE r == [approval |-> NoApproval, seen |-> Seen, at |-> now, granted |-> grants]
<1>10. performed' = {r}
  BY <1>1 DEF Performs
<1>11. /\ r.approval = NoApproval /\ r.seen.action = proposal /\ r.seen.policy = policy
       /\ r.seen.state = state /\ r.at = now
  BY DEF Seen
<1> HIDE DEF r
<1>12. ApprovedAsSeen'
  BY <1>10, <1>11 DEF ApprovedAsSeen
<1>13. WithinLifetime'
  BY <1>3, <1>6, <1>10, <1>11 DEF WithinLifetime, Permitted
<1>14. OnlyReadsUnapproved'
  BY <1>7, <1>10, <1>11 DEF OnlyReadsUnapproved, RiskClass, Reversibility, Operations, CapabilityOf
<1>15. Confined'
  BY <1>2, <1>3, <1>10, <1>11, CoveredIsGranted DEF Confined, Permitted
<1> QED  BY <1>8, <1>9, <1>12, <1>13, <1>14, <1>15 DEF IInv, PerformedSound

(* What an approval lets through is what the user saw.                     *)
LEMMA AuthorizeKeeps ==
  ASSUME NEW i \in Approvals
  PROVE  IInv /\ Authorize(i) => IInv'
<1> SUFFICES ASSUME IInv, Authorize(i) PROVE IInv'
  OBVIOUS
<1> DEFINE g == grants[i].grant
           seen == grants[i].seen
           rule == policy.rules[CapabilityOf[proposal.operation.kind]]
<1>1. /\ grants[i] # NoGrant
      /\ VerifyApproval(proposal, policy, state, g, now)
      /\ Performs(i)
      /\ UNCHANGED <<proposal, policy, state, now, asked, grants>>
  BY DEF Authorize
<1>2. /\ proposal \in Proposals /\ policy \in Policies /\ state \in States /\ now \in Clock
      /\ g \in GrantRecords /\ seen \in Sights
  BY <1>1 DEF IInv, TypeOK, Registers
<1>3. Binds(g, RequirementOf(seen))
  BY <1>1 DEF IInv, GrantsSound
<1>4. /\ g.decision = "approved" /\ g.status = "unused" /\ InWindow(g, now)
      /\ Evaluate(proposal, policy, state, now).decision = "approval_required"
      /\ Answers(g, Evaluate(proposal, policy, state, now).requirement)
  BY <1>1 DEF VerifyApproval
<1>5. /\ Permitted(proposal, policy, state, now)
      /\ Answers(g, Requirement(proposal, policy, state))
  BY <1>2, <1>4, EvaluateAsks
<1>6. BindingDigest(proposal, policy, state) = BindingDigest(seen.action, seen.policy, seen.state)
  BY <1>3, <1>5 DEF Answers, Binds, Requirement, RequirementOf
<1>7. seen.action \in Proposals /\ seen.policy \in Policies /\ seen.state \in States
  BY <1>2 DEF Sights
<1>8. seen.action = proposal /\ seen.policy = policy /\ seen.state = state
  BY <1>2, <1>6, <1>7, BindingIsInjective
<1>9. seen = Seen
  BY <1>2, <1>8 DEF Seen, Sights
<1>10. /\ proposal.capability.kind = CapabilityOf[proposal.operation.kind]
       /\ proposal.expires <= proposal.created + MaxActionTtl
  BY <1>2, <1>5, PermittedLifetime DEF Permitted
<1>11. /\ Requirement(proposal, policy, state).maxTtl \in Nat
       /\ Requirement(proposal, policy, state).maxTtl <= policy.maxTtl
       /\ Requirement(proposal, policy, state).maxTtl <= rule.ttl
       /\ policy.maxTtl \in Nat /\ rule.ttl \in Nat
  BY <1>2, <1>5, <1>10, RequirementType, PolicyAssumption DEF Permitted
<1>12. /\ g.issued \in Nat /\ g.expires \in Nat
  BY <1>2, GrantTimes
<1>13. /\ Requirement(proposal, policy, state).created = proposal.created
       /\ Requirement(proposal, policy, state).expires = proposal.expires
  BY DEF Requirement
<1>14. /\ proposal.created <= g.issued /\ g.issued <= now
       /\ now < g.expires /\ g.expires <= proposal.expires
       /\ g.expires <= g.issued + rule.ttl /\ g.expires <= g.issued + policy.maxTtl
  <2>1. /\ g.expires <= g.issued + Requirement(proposal, policy, state).maxTtl
        /\ Requirement(proposal, policy, state).created <= g.issued
        /\ g.expires <= Requirement(proposal, policy, state).expires
    BY <1>3, <1>4, <1>8 DEF Binds, WindowFits, RequirementOf
  <2>2. g.issued <= now /\ now < g.expires
    BY <1>4 DEF InWindow
  <2> HIDE DEF g, rule
  <2> QED  BY <1>11, <1>12, <1>13, <2>1, <2>2
<1>15. TypeOK'
  BY <1>1, PerformsTyped DEF IInv, TypeOK
<1>16. QuestionsSound' /\ GrantsSound'
  BY <1>1 DEF IInv, QuestionsSound, GrantsSound
<1> DEFINE r == [approval |-> i, seen |-> Seen, at |-> now, granted |-> grants]
<1>17. performed' = {r}
  BY <1>1 DEF Performs
<1>18. /\ r.approval = i /\ r.seen = Seen /\ r.at = now /\ r.granted = grants
       /\ Seen.action = proposal /\ Seen.policy = policy /\ Seen.state = state
       /\ r.seen.action = proposal /\ r.seen.policy = policy /\ r.seen.state = state
  BY DEF Seen
<1> HIDE DEF r
<1>19. ApprovedAsSeen'
  BY <1>4, <1>9, <1>17, <1>18 DEF ApprovedAsSeen
<1>20. WithinLifetime'
  BY <1>5, <1>10, <1>14, <1>17, <1>18 DEF WithinLifetime, Permitted
<1>21. OnlyReadsUnapproved'
  BY <1>17, <1>18, PolicyAssumption DEF OnlyReadsUnapproved
<1>22. Confined'
  BY <1>2, <1>5, <1>17, <1>18, CoveredIsGranted DEF Confined, Permitted
<1> QED  BY <1>15, <1>16, <1>19, <1>20, <1>21, <1>22 DEF IInv, PerformedSound
----------------------------------------------------------------------------
(* What the host and the world change on their own.                        *)
LEMMA ChangeKeeps == IInv /\ (Propose \/ ChangePolicy \/ Drift \/ SetClock) => IInv'
<1> SUFFICES ASSUME IInv, Propose \/ ChangePolicy \/ Drift \/ SetClock PROVE IInv'
  OBVIOUS
<1>1. performed' = {} /\ UNCHANGED <<asked, grants>>
  BY DEF Propose, ChangePolicy, Drift, SetClock
<1>2. proposal' \in Proposals /\ policy' \in Policies /\ state' \in States /\ now' \in Clock
  BY DEF IInv, TypeOK, Propose, ChangePolicy, Drift, SetClock
<1>3. TypeOK'
  BY <1>1, <1>2 DEF IInv, TypeOK
<1>4. QuestionsSound' /\ GrantsSound'
  BY <1>1 DEF IInv, QuestionsSound, GrantsSound
<1>5. PerformedSound'
  BY <1>1 DEF PerformedSound, ApprovedAsSeen, WithinLifetime, OnlyReadsUnapproved, Confined
<1> QED  BY <1>3, <1>4, <1>5 DEF IInv

(* At first nothing was asked, given or performed.                         *)
LEMMA InitSound == Init => IInv
<1> SUFFICES ASSUME Init PROVE IInv
  OBVIOUS
<1>1. TypeOK
  BY InitTyped
<1>2. asked = {} /\ performed = {} /\ \A i \in Approvals : grants[i] = NoGrant
  BY DEF Init
<1> QED
  BY <1>1, <1>2 DEF IInv, QuestionsSound, GrantsSound, PerformedSound, ApprovedAsSeen,
     WithinLifetime, OnlyReadsUnapproved, Confined

(* Every step of the host, the user and the world keeps the invariant.     *)
LEMMA NextKeeps == IInv /\ [Next]_vars => IInv'
<1> SUFFICES ASSUME IInv, [Next]_vars PROVE IInv'
  OBVIOUS
<1>1. CASE Propose \/ ChangePolicy \/ Drift \/ SetClock
  BY <1>1, ChangeKeeps
<1>2. CASE Request
  BY <1>2, RequestKeeps
<1>3. CASE Allow
  BY <1>3, AllowKeeps
<1>4. ASSUME NEW i \in Approvals, NEW q \in asked, NEW ttl \in Ttls, Approve(i, q, ttl)
      PROVE  IInv'
  <2>1. ttl \in Nat
    BY PolicyAssumption
  <2> QED  BY <1>4, <2>1, AnswerKeeps DEF Approve
<1>5. ASSUME NEW i \in Approvals, NEW q \in asked, Deny(i, q)
      PROVE  IInv'
  <2>1. q.requirement.maxTtl \in Nat
    BY DEF IInv, TypeOK, Requirements
  <2>2. PICK ttl \in Nat : ttl = q.requirement.maxTtl
    BY <2>1
  <2> QED  BY <1>5, <2>2, AnswerKeeps DEF Deny
<1>6. ASSUME NEW i \in Approvals, NEW status \in {"consumed", "revoked"}, Retire(i, status)
      PROVE  IInv'
  BY <1>6, RetireKeeps
<1>7. ASSUME NEW i \in Approvals, Authorize(i)
      PROVE  IInv'
  BY <1>7, AuthorizeKeeps
<1>8. CASE UNCHANGED vars
  <2>1. TypeOK'
    BY <1>8 DEF vars, IInv, TypeOK
  <2>2. QuestionsSound' /\ GrantsSound'
    BY <1>8 DEF vars, IInv, QuestionsSound, GrantsSound
  <2>3. PerformedSound'
    BY <1>8 DEF vars, IInv, PerformedSound, ApprovedAsSeen, WithinLifetime, OnlyReadsUnapproved,
       Confined
  <2> QED  BY <2>1, <2>2, <2>3 DEF IInv
<1> QED
  BY <1>1, <1>2, <1>3, <1>4, <1>5, <1>6, <1>7, <1>8 DEF Next

(* The invariant holds in every reachable state.                           *)
THEOREM Invariant == Spec => []IInv
  BY InitSound, NextKeeps, PTL DEF Spec
----------------------------------------------------------------------------
(* The variables have their types.                                         *)
THEOREM PolicyTypes == Spec => []TypeOK
<1>1. IInv => TypeOK
  BY DEF IInv
<1> QED  BY <1>1, Invariant, PTL

(* The user has approved exactly what an approval lets through: the action,*)
(* the policy, and the state of project, resource and destination.         *)
THEOREM ApprovalBinds == Spec => []ApprovedAsSeen
<1>1. IInv => ApprovedAsSeen
  BY DEF IInv, PerformedSound
<1> QED  BY <1>1, Invariant, PTL

(* Nothing is performed outside its lifetime or that of its approval.      *)
THEOREM Lifetimes == Spec => []WithinLifetime
<1>1. IInv => WithinLifetime
  BY DEF IInv, PerformedSound
<1> QED  BY <1>1, Invariant, PTL

(* No policy, valid or not, lets anything but a read pass without approval.*)
THEOREM ReadsOnly == Spec => []OnlyReadsUnapproved
<1>1. IInv => OnlyReadsUnapproved
  BY DEF IInv, PerformedSound
<1> QED  BY <1>1, Invariant, PTL

(* No operation touches what the host has not granted.                     *)
THEOREM Confinement == Spec => []Confined
<1>1. IInv => Confined
  BY DEF IInv, PerformedSound
<1> QED  BY <1>1, Invariant, PTL

(* What approve accepts, verify_approval accepts, at every moment of the   *)
(* window.                                                                 *)
LEMMA SoundIsHonoured == IInv => ApprovalHonoured
<1> SUFFICES ASSUME IInv, NEW i \in Approvals, grants[i] # NoGrant, grants[i].seen = Seen,
                    grants[i].grant.decision = "approved", grants[i].grant.status = "unused",
                    InWindow(grants[i].grant, now)
             PROVE  VerifyApproval(proposal, policy, state, grants[i].grant, now)
  BY DEF ApprovalHonoured
<1> DEFINE g == grants[i].grant
           q == Requirement(proposal, policy, state)
<1>1. /\ proposal \in Proposals /\ policy \in Policies /\ state \in States /\ now \in Clock
      /\ g \in GrantRecords
  BY DEF IInv, TypeOK, Registers
<1>2. NeedsApproval(Seen) /\ Binds(g, RequirementOf(Seen))
  BY DEF IInv, GrantsSound
<1>3. RequirementOf(Seen) = q
  BY DEF RequirementOf, Seen
<1>4. proposal.capability.kind \in DOMAIN policy.rules
  BY <1>2 DEF NeedsApproval, Seen
<1>5. q.maxTtl \in Nat
  BY <1>1, <1>4, RequirementType
<1>6. /\ now \in Nat /\ g.issued \in Nat /\ g.expires \in Nat
      /\ q.created = proposal.created /\ q.expires = proposal.expires
      /\ proposal.created \in Nat /\ proposal.expires \in Nat
  <2>1. g.issued \in Nat /\ g.expires \in Nat
    BY <1>1, GrantTimes
  <2>2. now \in Nat /\ proposal.created \in Nat /\ proposal.expires \in Nat
    BY <1>1, PolicyAssumption
  <2>3. q.created = proposal.created /\ q.expires = proposal.expires
    BY DEF Requirement
  <2> QED  BY <2>1, <2>2, <2>3
<1>7. WindowFits(g, q) /\ g.issued <= now /\ now < g.expires
  BY <1>2, <1>3 DEF Binds, InWindow
<1>8. proposal.created <= now /\ now < proposal.expires
  <2> HIDE DEF g, q
  <2> QED  BY <1>6, <1>7 DEF WindowFits
<1>9. /\ Evaluate(proposal, policy, state, now).decision = "approval_required"
      /\ Evaluate(proposal, policy, state, now).requirement = q
  BY <1>1, <1>2, <1>8, AskedAgain DEF Seen
<1>10. Answers(g, q)
  <2>1. g.id = q.id /\ g.action = q.action /\ g.policy = q.policy /\ g.binding = q.binding
    BY <1>2, <1>3 DEF Binds
  <2> HIDE DEF g, q
  <2>2. g.expires - g.issued <= q.maxTtl
    BY <1>5, <1>6, <1>7 DEF WindowFits
  <2> QED  BY <1>7, <2>1, <2>2 DEF Answers, WindowFits
<1> QED
  BY <1>9, <1>10 DEF VerifyApproval

(* An approval the user gave is good for all of its window.                *)
THEOREM Honoured == Spec => []ApprovalHonoured
  BY Invariant, SoundIsHonoured, PTL
=============================================================================
