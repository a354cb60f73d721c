------------------------------ MODULE MCPolicy ------------------------------
(***************************************************************************)
(* One project, one run, and proposals of which some are valid, for the    *)
(* checks of Policy.                                                       *)
(***************************************************************************)
EXTENDS Policy

Scope(kind, place, targets) ==
  [kind |-> kind, project |-> "vea", run |-> "run", place |-> place, targets |-> targets,
   wellFormed |-> TRUE]

ReadScope == Scope("project_read", "worktree", {"a"})
PatchScope(paths) == Scope("project_apply_patch", "worktree", paths)
SubmitScope == Scope("provider_submit", "account", {"api"})

Operation(kind, place, targets, content) ==
  [kind |-> kind, place |-> place, targets |-> targets, content |-> content, wellFormed |-> TRUE]

Proposal(scope, operation, created, expires) ==
  [id |-> "action", project |-> "vea", run |-> "run", capability |-> scope,
   operation |-> operation, created |-> created, expires |-> expires, wellFormed |-> TRUE]

Patch(paths, content) == Operation("apply_patch", "worktree", paths, content)

(* A read, two versions of a patch, a submission to a provider; and a patch*)
(* that claims to be a read, one of a file that nobody granted, one that   *)
(* lives too long, and one that names no file.                             *)
MCProposals ==
  {Proposal(ReadScope, Operation("read_files", "worktree", {"a"}, "x"), 0, 3),
   Proposal(PatchScope({"a"}), Patch({"a"}, "x"), 1, 4),
   Proposal(PatchScope({"a"}), Patch({"a"}, "y"), 1, 4),
   Proposal(SubmitScope, Operation("submit_provider_request", "account", {"api"}, "x"), 0, 3),
   Proposal(ReadScope, Patch({"a"}, "x"), 1, 4),
   Proposal(PatchScope({"a", "c"}), Patch({"a", "c"}, "x"), 1, 4),
   Proposal(PatchScope({"a"}), Patch({"a"}, "x"), 0, 4),
   Proposal(PatchScope({"a"}), Patch({}, "x"), 1, 4)}

Allowing == [decision |-> "allow_without_approval", ttl |-> 0]
Requiring(ttl) == [decision |-> "require_approval", ttl |-> ttl]
Denying == [decision |-> "deny", ttl |-> 0]

MCPolicyOf(rules, maxTtl) ==
  [wellFormed |-> TRUE, trusted |-> [vea |-> "clean"],
   grants |-> {ReadScope, PatchScope({"a", "b"}), SubmitScope},
   rules |-> rules, maxTtl |-> maxTtl]

(* Lenient, strict in one way or another, and one that would let patches   *)
(* pass without an approval, which is not valid.                           *)
MCPolicies ==
  {MCPolicyOf([project_read |-> Allowing, project_apply_patch |-> Requiring(3),
               provider_submit |-> Requiring(1)], 2),
   MCPolicyOf([project_read |-> Requiring(1), project_apply_patch |-> Requiring(3),
               provider_submit |-> Denying], 1),
   MCPolicyOf([project_read |-> Allowing, project_apply_patch |-> Allowing], 2)}

MCStates ==
  {[project |-> "clean", resource |-> "clean", destination |-> NoState],
   [project |-> "clean", resource |-> "dirty", destination |-> NoState],
   [project |-> "dirty", resource |-> "clean", destination |-> NoState],
   [project |-> "clean", resource |-> "clean", destination |-> "clean"]}
=============================================================================
