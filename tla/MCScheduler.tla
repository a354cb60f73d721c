---------------------------- MODULE MCScheduler ----------------------------
(***************************************************************************)
(* Two projects with a few tasks each, for the checks of Scheduler.        *)
(***************************************************************************)
EXTENDS Scheduler

MCNames == {"src", "lib"}
MCLanes == {"codex", "claude", "work"}

(* Write scopes: all of src, a file in src, lib, and unknown.              *)
Src  == <<Name("src"), Deep>>
File == <<Name("src"), Name("lib")>>
Lib  == <<Name("lib")>>

(* A first task that clashes with two others of its project, and a second  *)
(* project that has to save for its only task.                             *)
ClashTasks == {"all", "file", "lib", "other"}
ClashProject == [t \in ClashTasks |-> IF t = "other" THEN 2 ELSE 1]
ClashEffort == [all |-> "medium", file |-> "low", lib |-> "high", other |-> "max"]
ClashRank == [all |-> 3, file |-> 1, lib |-> 2, other |-> 4]
ClashScopes == [all |-> <<Lib, Src>>, file |-> <<File>>, lib |-> <<Lib>>, other |-> <<>>]
ClashWeight == <<10, 1>>

(* Two adapters of which one is limited, and an account that both use.     *)
TwoRoutes == {{"codex", "work"}, {"claude", "work"}}
OneRoute == {{"codex", "work"}}
CodexOnce == [lane \in {"codex"} |-> 1]

(* A busy project of two tasks beside a project of one.                    *)
BusyTasks == {"small", "large", "other"}
BusyProject == [t \in BusyTasks |-> IF t = "other" THEN 2 ELSE 1]
BusyRank == [small |-> 2, large |-> 1, other |-> 3]
BusyScopes == [small |-> <<File>>, large |-> <<Lib>>, other |-> <<>>]
MixedEffort == [small |-> "low", large |-> "medium", other |-> "low"]
EqualEffort == [t \in BusyTasks |-> "medium"]
BusyWeight == <<10, 10>>
UnequalWeight == <<1000, 1>>
=============================================================================
