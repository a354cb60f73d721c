---------------------------- MODULE EffectLedger ----------------------------
(***************************************************************************)
(* What vea-store promises about side effects (crates/vea-store/README.md, *)
(* docs/PLAN.md): a side effect is persisted as authorized, then started,  *)
(* then finished, each at most once; when the host is interrupted, every   *)
(* started effect becomes unknown, all in one step, and stays so: nothing  *)
(* is ever started a second time.                                          *)
(***************************************************************************)
CONSTANT Actions

VARIABLE phase

LedgerPhases == {"none", "authorized", "started", "finished", "unknown"}

Init == phase = [a \in Actions |-> "none"]

Move(a, from, to) == phase[a] = from /\ phase' = [phase EXCEPT ![a] = to]

Authorize(a) == Move(a, "none", "authorized")
Start(a)     == Move(a, "authorized", "started")
Finish(a)    == Move(a, "started", "finished")

Interrupt ==
  /\ \E a \in Actions : phase[a] = "started"
  /\ phase' = [a \in Actions |->
                 IF phase[a] = "started" THEN "unknown" ELSE phase[a]]

Next == Interrupt \/ \E a \in Actions : Authorize(a) \/ Start(a) \/ Finish(a)

Spec == Init /\ [][Next]_phase

-----------------------------------------------------------------------------
(* Every effect is in one of the five phases.                              *)
PhaseOK == phase \in [Actions -> LedgerPhases]

(* A terminal outcome is never revised, not even by a late Finish of an    *)
(* effect that was marked unknown.                                         *)
TerminalIsFinal ==
  [][\A a \in Actions :
       phase[a] \in {"finished", "unknown"} => phase'[a] = phase[a]]_phase
=============================================================================
