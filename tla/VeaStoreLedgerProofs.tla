------------------------ MODULE VeaStoreLedgerProofs ------------------------
(***************************************************************************)
(* The store implements EffectLedger and ProjectLedger: through what the   *)
(* log stands for, every step of the store is a step of one side effect or *)
(* of one project, the interruption of all started effects, the adoption   *)
(* of all old projects, or none.  While the store is open the projections  *)
(* show what the log stands for; an upgrade and a recovery do their work   *)
(* in a copy, and the invariants say how far it has come.                  *)
(* The last section shows what can make a startup fail.                    *)
(***************************************************************************)
EXTENDS VeaStoreProofs

PhaseOf(d, a) == IF d.effects[a] = NoRow THEN "none" ELSE d.effects[a].phase

(* An effect that the recovery has dealt with was started before.          *)
Converts(d, work) ==
  \A a \in Actions :
    \/ PhaseOf(work, a) = PhaseOf(d, a)
    \/ PhaseOf(d, a) = "started" /\ PhaseOf(work, a) = "unknown"

EffectInv ==
  /\ Inv
  /\ mode = "upgrading" => \A a \in Actions : tx.work.effects[a] = NoRow
  /\ mode = "recovering" => Converts(db, tx.work)

-----------------------------------------------------------------------------

(* Where the projections are current, they show the phases of the log.     *)
LEMMA PhasesShown ==
  ASSUME NEW d, Sound(d), ProjectionsCurrent(d), NEW a \in Actions
  PROVE  LedgerPhase(d.events, a) = PhaseOf(d, a)
<1>1. PICK ev \in Seq(Event) : ev = d.events /\ Applies(ev, Len(ev)) /\ Len(ev) \in Nat
  BY DatabaseTypes DEF Sound
<1>2. PICK S : S = EventsOf(ev, Len(ev), a)
  OBVIOUS
<1>3. d.effects[a] = ReplayEffect(ev, Len(ev), a)
  BY <1>1 DEF ProjectionsCurrent, EffectsCurrent, ReplayEffects
<1>4. CASE S = {}
  <2>1. d.effects[a] = NoRow
    BY <1>2, <1>3, <1>4 DEF ReplayEffect, EffectOf
  <2> QED BY <1>1, <1>2, <1>4, <2>1 DEF PhaseOf, LedgerPhase
<1>5. CASE S # {}
  <2>1. Len(ev) \in 0..Len(ev)
    BY <1>1
  <2>2. d.effects[a] \in EffectRow
    BY <1>1, <1>2, <1>3, <1>5, <2>1, EffectRowTyped
  <2>3. d.effects[a] # NoRow
    BY <2>2, StoreAssumption
  <2>4. d.effects[a].phase = PhaseAfter(ev[Latest(S)].req.cmd.op)
    BY <1>2, <1>3, <1>5 DEF ReplayEffect, EffectOf
  <2> QED BY <1>1, <1>2, <1>5, <2>3, <2>4 DEF PhaseOf, LedgerPhase
<1> QED BY <1>4, <1>5

(* What a permitted command makes of the phase of its effect.              *)
LEMMA PhaseMoves ==
  ASSUME NEW row, NEW env, env.cmd \in EffectCommand, EffectMoves(row, env.cmd), NEW seq
  PROVE  /\ env.cmd.op = "authorize" =>
              row = NoRow /\ NextEffect(row, env, seq).phase = "authorized"
         /\ env.cmd.op = "start" => /\ row # NoRow /\ row.phase = "authorized"
                                    /\ NextEffect(row, env, seq).phase = "started"
         /\ env.cmd.op = "finish" => /\ row # NoRow /\ row.phase = "started"
                                     /\ NextEffect(row, env, seq).phase = "finished"
         /\ env.cmd.op = "mark_unknown" => /\ row # NoRow /\ row.phase = "started"
                                           /\ NextEffect(row, env, seq).phase = "unknown"
<1>1. CASE env.cmd.op = "authorize"
  <2>1. NextEffect(row, env, seq) = Authorized(env.cmd, env, seq)
    BY <1>1, Zenon DEF NextEffect
  <2> QED BY <1>1, <2>1 DEF Authorized, EffectMoves
<1>2. CASE env.cmd.op = "start"
  <2>1. NextEffect(row, env, seq) =
          Advanced(row, "started", row.result, env.at, row.finished, env.at, seq)
    BY <1>2, Zenon DEF NextEffect
  <2> QED BY <1>2, <2>1 DEF Advanced, EffectMoves
<1>3. CASE env.cmd.op = "finish"
  <2>1. NextEffect(row, env, seq) =
          Advanced(row, "finished", env.cmd.result, row.started, env.at, env.at, seq)
    BY <1>3, Zenon DEF NextEffect
  <2> QED BY <1>3, <2>1 DEF Advanced, EffectMoves
<1>4. CASE env.cmd.op = "mark_unknown"
  <2>1. NextEffect(row, env, seq) =
          Advanced(row, "unknown", row.result, row.started, row.finished, env.at, seq)
    BY <1>4, Zenon DEF NextEffect
  <2> QED BY <1>4, <2>1 DEF Advanced, EffectMoves
<1> QED BY <1>1, <1>2, <1>3, <1>4, EffectCommandTypes

(* A permitted command makes a row.                                        *)
LEMMA NextEffectTyped ==
  ASSUME NEW row \in EffectRow \cup {NoRow}, NEW env, env.cmd \in EffectCommand,
         env.at \in Nat, EffectMoves(row, env.cmd), NEW seq \in Nat
  PROVE  NextEffect(row, env, seq) \in EffectRow
<1>1. CASE env.cmd.op = "authorize"
  <2>1. NextEffect(row, env, seq) = Authorized(env.cmd, env, seq)
    BY <1>1, Zenon DEF NextEffect
  <2>2. env.cmd.approval \in Approvals
    BY <1>1, EffectCommandTypes
  <2> QED BY <2>1, <2>2 DEF Authorized, EffectRow, Phases
<1>2. CASE env.cmd.op # "authorize"
  <2>1. row \in EffectRow
    BY <1>2 DEF EffectMoves
  <2>2. /\ row.rev + 1 \in Nat /\ row.result \in Results \cup {NoResult}
        /\ row.approval \in Approvals /\ row.authorized \in Nat
        /\ row.started \in Nat \cup {NoTime} /\ row.finished \in Nat \cup {NoTime}
    BY <2>1 DEF EffectRow
  <2>3. CASE env.cmd.op = "start"
    <3>1. NextEffect(row, env, seq) =
            Advanced(row, "started", row.result, env.at, row.finished, env.at, seq)
      BY <2>3, Zenon DEF NextEffect
    <3> QED BY <2>2, <3>1 DEF Advanced, EffectRow, Phases
  <2>4. CASE env.cmd.op = "finish"
    <3>1. NextEffect(row, env, seq) =
            Advanced(row, "finished", env.cmd.result, row.started, env.at, env.at, seq)
      BY <2>4, Zenon DEF NextEffect
    <3>2. env.cmd.result \in Results
      BY <2>4, EffectCommandTypes
    <3> QED BY <2>2, <3>1, <3>2 DEF Advanced, EffectRow, Phases
  <2>5. CASE env.cmd.op = "mark_unknown"
    <3>1. NextEffect(row, env, seq) =
            Advanced(row, "unknown", row.result, row.started, row.finished, env.at, seq)
      BY <2>5, Zenon DEF NextEffect
    <3> QED BY <2>2, <3>1 DEF Advanced, EffectRow, Phases
  <2> QED BY <1>2, <2>3, <2>4, <2>5, EffectCommandTypes
<1> QED BY <1>1, <1>2

(* A command for an effect moves this effect and no other.                 *)
LEMMA EffectPhases ==
  ASSUME NEW d, Sound(d), NEW env \in Envelope, NEW x \in Actions, x = env.id,
         EffectPermits(d, env), NEW d2, d2 = ExecuteEffect(d, env)
  PROVE  /\ \A a \in Actions : a # x => PhaseOf(d2, a) = PhaseOf(d, a)
         /\ env.cmd.op = "authorize" => PhaseOf(d, x) = "none" /\ PhaseOf(d2, x) = "authorized"
         /\ env.cmd.op = "start" => PhaseOf(d, x) = "authorized" /\ PhaseOf(d2, x) = "started"
         /\ env.cmd.op = "finish" => PhaseOf(d, x) = "started" /\ PhaseOf(d2, x) = "finished"
         /\ env.cmd.op = "mark_unknown" =>
              PhaseOf(d, x) = "started" /\ PhaseOf(d2, x) = "unknown"
<1>1. PICK row : row = d.effects[x]
  OBVIOUS
<1>2. PICK next : next = NextEffect(row, env, Len(d.events) + 1)
  OBVIOUS
<1>3. d.effects \in [Actions -> EffectRow \cup {NoRow}]
  BY DatabaseTypes DEF Sound
<1>4. d2.effects = [d.effects EXCEPT ![x] = next]
  BY <1>1, <1>2 DEF ExecuteEffect
<1>5. /\ d2.effects[x] = next
      /\ \A a \in Actions : a # x => d2.effects[a] = d.effects[a]
  BY <1>3, <1>4
<1>6. EffectMoves(row, env.cmd)
  BY <1>1 DEF EffectPermits
<1>7. env.cmd \in EffectCommand
  BY EnvelopeTypes, StoreAssumption
<1>8. PICK op : op = env.cmd.op
  OBVIOUS
<1>9. /\ op = "authorize" => row = NoRow /\ next.phase = "authorized"
      /\ op = "start" => row # NoRow /\ row.phase = "authorized" /\ next.phase = "started"
      /\ op = "finish" => row # NoRow /\ row.phase = "started" /\ next.phase = "finished"
      /\ op = "mark_unknown" => row # NoRow /\ row.phase = "started" /\ next.phase = "unknown"
  BY <1>2, <1>6, <1>7, <1>8, PhaseMoves
<1>10. next # NoRow
  <2>1. row \in EffectRow \cup {NoRow} /\ env.at \in Nat /\ Len(d.events) + 1 \in Nat
    BY <1>1, <1>3, DatabaseTypes, EnvelopeTypes DEF Sound
  <2> QED BY <1>2, <1>6, <1>7, <2>1, NextEffectTyped, StoreAssumption
<1> QED BY <1>1, <1>5, <1>8, <1>9, <1>10 DEF PhaseOf

-----------------------------------------------------------------------------
(* Steps of the store as steps of the ledger of effects.                   *)

LogPhases(ev) == [a \in Actions |-> LedgerPhase(ev, a)]

phases == LogPhases(db.events)

(* A step that adds no event changes no phase.                             *)
LEMMA Stutters ==
  ASSUME db'.events = db.events
  PROVE  LogPhases(db'.events) = LogPhases(db.events)
OBVIOUS

(* A client's command moves one effect, or none.                           *)
LEMMA ExecuteMoves ==
  ASSUME EffectInv, EffectInv', NEW env \in ClientEnvelopes, Execute(env)
  PROVE  \/ LogPhases(db'.events) = LogPhases(db.events)
         \/ \E x \in Actions : \E to \in {"authorized", "started", "finished"} :
              /\ to = "authorized" => LogPhases(db.events)[x] = "none"
              /\ to = "started" => LogPhases(db.events)[x] = "authorized"
              /\ to = "finished" => LogPhases(db.events)[x] = "started"
              /\ LogPhases(db'.events) = [LogPhases(db.events) EXCEPT ![x] = to]
<1>1. /\ mode = "open" /\ mode' = "open" /\ Sound(db) /\ ProjectionsCurrent(db)
      /\ Sound(db') /\ ProjectionsCurrent(db')
  BY DEF Execute, EffectInv, Inv
<1>2. \A a \in Actions : /\ LogPhases(db.events)[a] = PhaseOf(db, a)
                         /\ LogPhases(db'.events)[a] = PhaseOf(db', a)
  BY <1>1, PhasesShown DEF LogPhases
<1>3. /\ LogPhases(db.events) = [a \in Actions |-> PhaseOf(db, a)]
      /\ LogPhases(db'.events) = [a \in Actions |-> PhaseOf(db', a)]
  BY <1>2 DEF LogPhases
<1>4. env \in Envelope
  BY ClientEnvelopesTyped
<1>5. CASE Outcome(db, env) # "committed"
  <2>1. db' = db
    BY <1>5 DEF Execute
  <2> QED BY <2>1
<1>6. CASE Outcome(db, env) = "committed" /\ env.id \in Projects
  <2>1. db' = ExecuteProject(db, env)
    BY <1>6 DEF Execute, Committed
  <2>2. db'.effects = db.effects
    BY <2>1 DEF ExecuteProject
  <2>3. \A a \in Actions : PhaseOf(db', a) = PhaseOf(db, a)
    BY <2>2 DEF PhaseOf
  <2> QED BY <1>3, <2>3
<1>7. CASE Outcome(db, env) = "committed" /\ env.id \notin Projects
  <2>1. PICK d2 : d2 = ExecuteEffect(db, env) /\ db' = d2
    BY <1>7 DEF Execute, Committed
  <2>2. EffectPermits(db, env) /\ env.cmd.op # "mark_unknown"
    <3>1. Permits(db, env)
      BY <1>7, Zenon DEF Outcome
    <3>2. Acceptable(env)
      BY <1>7, Zenon DEF Outcome
    <3> QED BY <1>7, <3>1, <3>2 DEF Permits, Acceptable
  <2>3. PICK x \in Actions : x = env.id
    BY <1>4, <1>7, EnvelopeTypes
  <2>4. env.cmd.op \in {"authorize", "start", "finish"}
    BY <1>4, <1>7, <2>2, EnvelopeTypes, EffectCommandTypes
  <2>5. /\ \A a \in Actions : a # x => PhaseOf(d2, a) = PhaseOf(db, a)
        /\ env.cmd.op = "authorize" => PhaseOf(db, x) = "none" /\ PhaseOf(d2, x) = "authorized"
        /\ env.cmd.op = "start" => PhaseOf(db, x) = "authorized" /\ PhaseOf(d2, x) = "started"
        /\ env.cmd.op = "finish" => PhaseOf(db, x) = "started" /\ PhaseOf(d2, x) = "finished"
    BY <1>1, <1>4, <2>1, <2>2, <2>3, EffectPhases
  <2>6. PICK to : to = PhaseOf(d2, x)
    OBVIOUS
  <2>7. LogPhases(db'.events) = [LogPhases(db.events) EXCEPT ![x] = to]
    BY <1>3, <2>1, <2>5, <2>6
  <2>8. /\ to \in {"authorized", "started", "finished"}
        /\ to = "authorized" => PhaseOf(db, x) = "none"
        /\ to = "started" => PhaseOf(db, x) = "authorized"
        /\ to = "finished" => PhaseOf(db, x) = "started"
    BY <2>4, <2>5, <2>6
  <2> QED BY <1>2, <2>7, <2>8
<1> QED BY <1>5, <1>6, <1>7

(* The commit of a recovery interrupts all started effects, or there are   *)
(* none.                                                                   *)
LEMMA RecoveryInterrupts ==
  ASSUME EffectInv, CommitRecovery
  PROVE  LogPhases(db'.events) =
           [a \in Actions |-> IF LogPhases(db.events)[a] = "started" THEN "unknown"
                              ELSE LogPhases(db.events)[a]]
<1>1. /\ mode = "recovering" /\ db' = tx.work /\ Started(tx.work) = {}
      /\ Sound(db) /\ ProjectionsCurrent(db) /\ Sound(tx.work) /\ ProjectionsCurrent(tx.work)
      /\ Converts(db, tx.work)
  BY DEF CommitRecovery, EffectInv, Inv
<1>2. PICK d : d = tx.work
  OBVIOUS
<1>3. ASSUME NEW a \in Actions
      PROVE  LedgerPhase(d.events, a) = IF LedgerPhase(db.events, a) = "started" THEN "unknown"
                                        ELSE LedgerPhase(db.events, a)
  <2>1. LedgerPhase(d.events, a) = PhaseOf(d, a) /\ LedgerPhase(db.events, a) = PhaseOf(db, a)
    BY <1>1, <1>2, PhasesShown
  <2>2. PhaseOf(d, a) # "started"
    BY <1>1, <1>2 DEF PhaseOf, Started
  <2> QED BY <1>1, <1>2, <2>1, <2>2 DEF Converts
<1> QED BY <1>1, <1>2, <1>3 DEF LogPhases

(* An upgrade brings projects and no effects.                              *)
LEMMA UpgradeMovesNone ==
  ASSUME EffectInv, CommitUpgrade
  PROVE  LogPhases(db'.events) = LogPhases(db.events)
<1>1. /\ mode = "upgrading" /\ Unledgered(db) /\ Imports(db, tx.work)
      /\ \A a \in Actions : tx.work.effects[a] = NoRow
      /\ db' = db \/ (db' = tx.work /\ ImportsValid(tx.work))
  BY DEF CommitUpgrade, EffectInv, Inv
<1>2. CASE db' = db
  BY <1>2
<1>3. CASE db' = tx.work /\ ImportsValid(tx.work)
  <2>1. PICK d : d = tx.work
    OBVIOUS
  <2>2. Sound(d) /\ ProjectionsCurrent(d)
    BY <1>1, <1>3, <2>1 DEF Imports
  <2>3. \A a \in Actions : LedgerPhase(d.events, a) = "none"
    BY <1>1, <2>1, <2>2, PhasesShown DEF PhaseOf
  <2>4. \A a \in Actions : LedgerPhase(db.events, a) = "none"
    <3>1. \A a \in Actions : EventsOf(db.events, Len(db.events), a) = {}
      BY <1>1 DEF Unledgered, EventsOf
    <3> QED BY <3>1 DEF LedgerPhase
  <2> QED BY <1>3, <2>1, <2>3, <2>4 DEF LogPhases
<1> QED BY <1>1, <1>2, <1>3

-----------------------------------------------------------------------------
(* How far a recovery has come is an invariant.                            *)

(* An import brings a project and no effect.                               *)
LEMMA ImportEffects ==
  ASSUME EffectInv, NEW p \in Projects, ImportProject(p)
  PROVE  EffectInv'
<1>1. /\ Inv' /\ mode = "upgrading" /\ mode' = mode
      /\ tx'.work = ExecuteProject(tx.work, ImportEnvelope(p))
  BY ImportStep DEF EffectInv, ImportProject
<1>2. tx'.work.effects = tx.work.effects
  BY <1>1 DEF ExecuteProject
<1> QED BY <1>1, <1>2 DEF EffectInv

(* Recovery makes one more started effect unknown.                         *)
LEMMA RecoverConverts ==
  ASSUME EffectInv, NEW x \in Actions, RecoverEffect(x)
  PROVE  EffectInv'
<1>1. /\ Inv' /\ db' = db /\ mode = "recovering" /\ Sound(tx.work)
      /\ tx.now \in Clock /\ Converts(db, tx.work)
  BY RecoverEffectStep DEF EffectInv, RecoverEffect, Inv
<1>2. PICK cid \in RecoveryIds :
        IF EffectPermits(tx.work, RecoveryEnvelope(x, cid))
        THEN /\ tx' = [work |-> ExecuteEffect(tx.work, RecoveryEnvelope(x, cid)),
                       now |-> tx.now]
             /\ mode' = mode
        ELSE tx' = NoTx /\ mode' = "failed"
  BY DEF RecoverEffect
<1>3. x \in Started(tx.work)
  BY DEF RecoverEffect
<1>4. PICK env \in Envelope : env = RecoveryEnvelope(x, cid) /\ env.id = x
  BY <1>1, <1>3, RecoveryEnvelopeTyped DEF Sound
<1>5. CASE EffectPermits(tx.work, env)
  <2>1. PICK d2 : d2 = ExecuteEffect(tx.work, env)
    OBVIOUS
  <2>2. mode' = "recovering" /\ tx'.work = d2
    BY <1>1, <1>2, <1>4, <1>5, <2>1
  <2>3. env.cmd.op = "mark_unknown"
    BY <1>4 DEF RecoveryEnvelope
  <2>4. /\ \A a \in Actions : a # x => PhaseOf(d2, a) = PhaseOf(tx.work, a)
        /\ PhaseOf(tx.work, x) = "started" /\ PhaseOf(d2, x) = "unknown"
    BY <1>1, <1>4, <1>5, <2>1, <2>3, EffectPhases
  <2>5. PhaseOf(db, x) = "started"
    BY <1>1, <2>4 DEF Converts
  <2>6. Converts(db, d2)
    BY <1>1, <2>4, <2>5 DEF Converts
  <2> QED BY <1>1, <2>2, <2>6 DEF EffectInv
<1>6. CASE ~EffectPermits(tx.work, env)
  <2>1. mode' = "failed"
    BY <1>2, <1>4, <1>6
  <2> QED BY <1>1, <2>1 DEF EffectInv
<1> QED BY <1>5, <1>6

(* No other step is taken inside a transaction, or it opens or ends one.   *)
LEMMA EffectStep ==
  ASSUME EffectInv, [Next]_vars
  PROVE  EffectInv'
<1>1. Inv /\ Inv'
  BY StepInv DEF EffectInv
<1>2. CASE BeginUpgrade
  <2>1. mode' = "upgrading" /\ tx'.work = EmptyDatabase
    BY <1>2 DEF BeginUpgrade
  <2>2. \A a \in Actions : EmptyDatabase.effects[a] = NoRow
    BY DEF EmptyDatabase
  <2> QED BY <1>1, <2>1, <2>2 DEF EffectInv
<1>3. CASE BeginRecovery
  <2>1. mode' = "recovering" /\ db' = db /\ \E now \in Clock : tx' = [work |-> db, now |-> now]
    BY <1>3 DEF BeginRecovery
  <2>2. tx'.work = db'
    BY <2>1
  <2>3. Converts(db', tx'.work)
    BY <2>2 DEF Converts
  <2> QED BY <1>1, <2>1, <2>3 DEF EffectInv
<1>4. ASSUME NEW p \in Projects, ImportProject(p)
      PROVE  EffectInv'
  BY <1>4, ImportEffects
<1>5. ASSUME NEW a \in Actions, RecoverEffect(a)
      PROVE  EffectInv'
  BY <1>5, RecoverConverts
<1>6. ASSUME NEW env \in ClientEnvelopes, Execute(env)
      PROVE  EffectInv'
  <2>1. mode' = "open"
    BY <1>6 DEF Execute
  <2> QED BY <1>1, <2>1 DEF EffectInv
<1>7. CASE CommitUpgrade \/ StartOpen \/ VerifyAndRepair \/ CommitRecovery \/ Crash \/ Damage
  <2>1. mode' \notin {"upgrading", "recovering"}
    BY <1>7 DEF CommitUpgrade, StartOpen, VerifyAndRepair, CommitRecovery, Crash, Closed, Damage
  <2> QED BY <1>1, <2>1 DEF EffectInv
<1>8. CASE UNCHANGED vars
  BY <1>1, <1>8 DEF EffectInv, vars
<1> QED BY <1>2, <1>3, <1>4, <1>5, <1>6, <1>7, <1>8 DEF Next

(* Every step moves the phases of the log as the ledger of effects allows. *)
LEMMA LedgerStep ==
  ASSUME EffectInv, EffectInv', [Next]_vars
  PROVE  [Ledger!Next]_phases
<1>1. CASE db'.events = db.events
  BY <1>1, Stutters DEF phases
<1>2. ASSUME NEW env \in ClientEnvelopes, Execute(env)
      PROVE  [Ledger!Next]_phases
  BY <1>2, ExecuteMoves
     DEF Ledger!Next, Ledger!Authorize, Ledger!Start, Ledger!Finish, Ledger!Move, LogPhases, phases
<1>3. CASE CommitRecovery
  <2>1. CASE \E a \in Actions : LogPhases(db.events)[a] = "started"
    BY <1>3, <2>1, RecoveryInterrupts DEF Ledger!Next, Ledger!Interrupt, LogPhases, phases
  <2>2. CASE \A a \in Actions : LogPhases(db.events)[a] # "started"
    <3>1. LogPhases(db'.events) = LogPhases(db.events)
      BY <1>3, <2>2, RecoveryInterrupts DEF LogPhases
    <3> QED BY <3>1 DEF phases
  <2> QED BY <2>1, <2>2
<1>4. CASE CommitUpgrade
  BY <1>4, UpgradeMovesNone DEF phases
<1>5. CASE BeginUpgrade \/ StartOpen \/ VerifyAndRepair \/ BeginRecovery \/ Crash \/ Damage
  <2>1. db' = db \/ db' = Rebuilt(db) \/ db' \in StaleProjections(db) \cup OverwrittenFields(db)
    BY <1>5 DEF BeginUpgrade, StartOpen, VerifyAndRepair, BeginRecovery, Crash, Damage
  <2>2. db'.events = db.events
    BY <2>1 DEF Rebuilt, StaleProjections, OverwrittenFields, WithProjections
  <2> QED BY <1>1, <2>2
<1>6. ASSUME \/ \E p \in Projects : ImportProject(p)
             \/ \E a \in Actions : RecoverEffect(a)
             \/ UNCHANGED vars
      PROVE  db'.events = db.events
  BY <1>6 DEF ImportProject, RecoverEffect, vars
<1> QED BY <1>1, <1>2, <1>3, <1>4, <1>5, <1>6 DEF Next

(* The store implements EffectLedger: whatever commands are sent, repeated *)
(* or refused, whatever rows are damaged and rebuilt, and whenever the host*)
(* dies, a side effect goes from authorized to started to finished, each at*)
(* most once, and an interruption makes all the started ones unknown in one*)
(* step (recover_started_side_effects).                                    *)
THEOREM EffectsAsPromised ==
  Spec => ImplementsEffectLedger
<1>1. Init => EffectInv /\ Ledger!Init
  <2> SUFFICES ASSUME Init PROVE EffectInv /\ Ledger!Init
    OBVIOUS
  <2>1. db.events = <<>> /\ mode = "unmigrated"
    BY DEF Init, EmptyDatabase
  <2>2. \A a \in Actions : EventsOf(db.events, Len(db.events), a) = {}
    BY <2>1 DEF EventsOf
  <2>3. \A a \in Actions : LedgerPhase(db.events, a) = "none"
    BY <2>2 DEF LedgerPhase
  <2> QED BY <2>1, <2>3, InitInv DEF EffectInv, Ledger!Init
<1>2. EffectInv /\ [Next]_vars => EffectInv'
  BY EffectStep
<1>3. EffectInv /\ EffectInv' /\ [Next]_vars
        => [Ledger!Next]_phases
  BY LedgerStep
<1> QED BY <1>1, <1>2, <1>3, PTL 
     DEF Spec, ImplementsEffectLedger, Ledger!Spec, phases, LogPhases

-----------------------------------------------------------------------------
(* The projects that a log stands for, as the ledger of projects sees them.*)
LogProjects(ev) == [p \in Projects |-> Known(ev, EventsOf(ev, Len(ev), p))]

(* Until an upgrade is committed the database holds the old projects; an   *)
(* import is no client's change; and recovery touches no project.          *)
ProjectInv ==
  /\ Inv
  /\ mode \in {"unmigrated", "upgrading", "refused"} => db.projects \in Legacy
  /\ mode = "upgrading" => ChangesIn(tx.work.events) = {}
  /\ mode = "recovering" => /\ tx.work.projects = db.projects
                            /\ ChangesIn(tx.work.events) = ChangesIn(db.events)

(* Where the projections are current, they show the projects of the log.   *)
LEMMA ProjectsShown ==
  ASSUME NEW d, Sound(d), ProjectionsCurrent(d)
  PROVE  LogProjects(d.events) = [p \in Projects |-> Shown(d.projects[p])]
<1>1. PICK ev \in Seq(Event) : ev = d.events /\ Applies(ev, Len(ev)) /\ Len(ev) \in Nat
  BY DatabaseTypes DEF Sound
<1>2. ASSUME NEW p \in Projects
      PROVE  Known(ev, EventsOf(ev, Len(ev), p)) = Shown(d.projects[p])
  <2>1. d.projects[p] = ReplayProject(ev, Len(ev), p)
    BY <1>1 DEF ProjectionsCurrent, ProjectsCurrent, ReplayProjects
  <2>2. PICK S : S = EventsOf(ev, Len(ev), p)
    OBVIOUS
  <2>3. CASE S = {}
    BY <2>1, <2>2, <2>3 DEF ReplayProject, ProjectOf, Known, Shown
  <2>4. CASE S # {}
    <3>1. d.projects[p] # NoRow
      BY <1>1, <2>1, <2>2, <2>4, ProjectRowTyped, StoreAssumption
    <3>2. d.projects[p] = ProjectOf(ev, S)
      BY <2>1, <2>2 DEF ReplayProject
    <3>3. /\ d.projects[p].rev = ev[Latest(S)].rev
          /\ d.projects[p].root = ev[Earliest(S)].req.cmd.root
          /\ d.projects[p].trust = TrustOf(ev, S)
          /\ d.projects[p].settings = [s \in Settings |-> SettingOf(ev, S, s)]
      BY <2>4, <3>2 DEF ProjectOf
    <3> QED BY <2>2, <2>4, <3>1, <3>3 DEF Known, Shown
  <2> QED BY <2>3, <2>4
<1> QED BY <1>1, <1>2 DEF LogProjects

(* A row that stands for a project has a revision.                         *)
LEMMA RowsHaveRevisions ==
  ASSUME NEW d, Sound(d), ProjectionsCurrent(d), NEW p \in Projects, d.projects[p] # NoRow
  PROVE  d.projects[p] \in ProjectRow /\ d.projects[p].rev > 0
<1>1. PICK ev \in Seq(Event) : ev = d.events /\ Applies(ev, Len(ev)) /\ Len(ev) \in Nat
  BY DatabaseTypes DEF Sound
<1>2. PICK n \in Nat : n = Len(ev)
  BY <1>1
<1>3. d.projects \in [Projects -> ProjectRow \cup {NoRow}]
  BY DatabaseTypes DEF Sound
<1>4. d.projects[p] = ReplayProject(ev, n, p)
  BY <1>1, <1>2 DEF ProjectionsCurrent, ProjectsCurrent, ReplayProjects
<1>5. PICK S : S = EventsOf(ev, n, p)
  OBVIOUS
<1>6. S # {} /\ S \in SUBSET (1..n)
  BY <1>4, <1>5 DEF ReplayProject, ProjectOf, EventsOf
<1>7. PICK i \in S : i = Latest(S) /\ \A j \in S : j <= i
  BY <1>6, LatestIs
<1>8. EventsOf(ev, i, p) = S
  <2>1. i \in 1..n
    BY <1>6
  <2>2. \A j : j \in S <=> j \in 1..n /\ ev[j].req.id = p
    BY <1>5 DEF EventsOf
  <2>3. \A j \in S : j \in 1..i
    BY <1>6, <1>7, <2>1
  <2>4. \A j \in 1..i : j \in 1..n
    BY <2>1
  <2>5. \A j : j \in S <=> j \in 1..i /\ ev[j].req.id = p
    BY <2>2, <2>3, <2>4
  <2> QED BY <2>5 DEF EventsOf
<1>9. ReplayProject(ev, i, p) = ReplayProject(ev, n, p)
  BY <1>5, <1>8 DEF ReplayProject
<1>10. EventApplies(ev, i) /\ ev[i].req.id = p
  BY <1>1, <1>2, <1>5, <1>6 DEF Applies, EventsOf
<1>11. ProjectValid(ReplayProject(ev, i, p))
  BY <1>10 DEF EventApplies
<1> QED BY <1>3, <1>4, <1>9, <1>11 DEF ProjectValid

(* The event that a transaction records.                                   *)
LEMMA RecordedEvent ==
  ASSUME NEW d \in Database, NEW env \in Envelope, NEW rev \in Nat
  PROVE  /\ [rev |-> rev, req |-> env] \in Event
         /\ Extends(Recorded(d, env, rev).events, d.events, [rev |-> rev, req |-> env])
BY DatabaseTypes DEF Event, Recorded, Extends

(* A client's command for a project is one more change; nothing else is.   *)
LEMMA ChangesGrow ==
  ASSUME NEW ev \in Seq(Event), NEW e \in Event, NEW ev2, Extends(ev2, ev, e)
  PROVE  ChangesIn(ev2) =
           IF e.req.id \in Projects /\ e.req.cid \in Commands
           THEN ChangesIn(ev) \cup
                  {[cid |-> e.req.cid, id |-> e.req.id, expected |-> e.req.expected]}
           ELSE ChangesIn(ev)
<1> DEFINE Change(req) == [cid |-> req.cid, id |-> req.id, expected |-> req.expected]
           Counts(req) == req.id \in Projects /\ req.cid \in Commands
<1>1. PICK n \in Nat : n = Len(ev)
  BY ExtendsTypes
<1>2. /\ \A i \in 1..n : ev2[i] = ev[i]
      /\ ev2[n + 1] = e
      /\ \A i : i \in 1..Len(ev2) <=> i \in 1..n \/ i = n + 1
  BY <1>1, ExtendsTypes
<1>3. \A c : c \in ChangesIn(ev) <=> \E i \in 1..n : Counts(ev[i].req) /\ c = Change(ev[i].req)
  BY <1>1 DEF ChangesIn
<1>4. \A c : c \in ChangesIn(ev2) <=>
               \E i \in 1..Len(ev2) : Counts(ev2[i].req) /\ c = Change(ev2[i].req)
  BY DEF ChangesIn
<1> HIDE DEF Change, Counts
<1>5. \A c : c \in ChangesIn(ev2) <=> \/ c \in ChangesIn(ev)
                                      \/ Counts(e.req) /\ c = Change(e.req)
  BY <1>2, <1>3, <1>4
<1>6. CASE Counts(e.req)
  <2>1. ChangesIn(ev2) = ChangesIn(ev) \cup {Change(e.req)}
    BY <1>5, <1>6
  <2> QED BY <1>6, <2>1 DEF Change, Counts
<1>7. CASE ~Counts(e.req)
  <2>1. ChangesIn(ev2) = ChangesIn(ev)
    BY <1>5, <1>7
  <2> QED BY <1>7, <2>1 DEF Counts
<1> QED BY <1>6, <1>7

(* What a client's command makes of what is shown of a project.            *)
LEMMA ShownMoves ==
  ASSUME NEW row \in ProjectRow \cup {NoRow}, NEW env, env.cmd \in ClientProjectCommand,
         ProjectMoves(row, env.cmd), NEW seq,
         NEW next \in ProjectRow, next = NextProject(row, env, seq)
  PROVE  /\ env.cmd.op = "create" =>
              /\ row = NoRow
              /\ Shown(next) = [rev |-> Shown(row).rev + 1, root |-> env.cmd.root,
                                trust |-> "untrusted", settings |-> env.cmd.settings]
         /\ env.cmd.op = "set_trust" =>
              /\ row # NoRow
              /\ Shown(row).trust = "revoked" => env.cmd.trust # "trusted"
              /\ Shown(next) = [rev |-> Shown(row).rev + 1, root |-> Shown(row).root,
                                trust |-> env.cmd.trust, settings |-> Shown(row).settings]
         /\ env.cmd.op = "set" =>
              /\ row # NoRow
              /\ Shown(next) = [rev |-> Shown(row).rev + 1, root |-> Shown(row).root,
                                trust |-> Shown(row).trust,
                                settings |-> [Shown(row).settings EXCEPT
                                                ![env.cmd.setting] = env.cmd.value]]
<1>1. next # NoRow
  BY StoreAssumption
<1>2. Shown(next) = [rev |-> next.rev, root |-> next.root, trust |-> next.trust,
                     settings |-> next.settings]
  BY <1>1 DEF Shown
<1>3. /\ row = NoRow => Shown(row).rev = 0
      /\ row # NoRow => /\ Shown(row).rev = row.rev /\ Shown(row).root = row.root
                        /\ Shown(row).trust = row.trust /\ Shown(row).settings = row.settings
  BY DEF Shown
<1>4. CASE env.cmd.op = "create"
  <2>1. next = Created(env.cmd, env, seq)
    BY <1>4, Zenon DEF NextProject
  <2>2. row = NoRow
    BY <1>4 DEF ProjectMoves
  <2> QED BY <1>2, <1>3, <1>4, <2>1, <2>2 DEF Created
<1>5. CASE env.cmd.op = "set_trust"
  <2>1. next = Revised(row, env.cmd.trust, row.settings, env.at, seq)
    BY <1>5, Zenon DEF NextProject
  <2>2. row # NoRow /\ TrustMoves(row.trust, env.cmd.trust)
    BY <1>5 DEF ProjectMoves
  <2>3. Shown(next) = [rev |-> row.rev + 1, root |-> row.root, trust |-> env.cmd.trust,
                       settings |-> row.settings]
    BY <1>2, <2>1 DEF Revised
  <2>4. row.trust = "revoked" => env.cmd.trust # "trusted"
    BY <2>2 DEF TrustMoves
  <2> QED BY <1>3, <1>5, <2>2, <2>3, <2>4
<1>6. CASE env.cmd.op = "set"
  <2>1. PICK settings : settings = [row.settings EXCEPT ![env.cmd.setting] = env.cmd.value]
    OBVIOUS
  <2>2. next = Revised(row, row.trust, settings, env.at, seq)
    BY <1>6, <2>1, Zenon DEF NextProject
  <2>3. row # NoRow
    BY <1>6 DEF ProjectMoves
  <2>4. Shown(next) = [rev |-> row.rev + 1, root |-> row.root, trust |-> row.trust,
                       settings |-> settings]
    BY <1>2, <2>2 DEF Revised
  <2> QED BY <1>3, <1>6, <2>1, <2>3, <2>4
<1> QED BY <1>4, <1>5, <1>6, Zenon DEF ClientProjectCommand

-----------------------------------------------------------------------------
(* Steps of the store as steps of the ledger of projects.                  *)

(* A command that is free has not changed a project.                       *)
LEMMA FreeCommand ==
  ASSUME NEW d, Sound(d), NEW c, d.receipts[c] = NoReceipt
  PROVE  \A change \in ChangesIn(d.events) : change.cid # c
<1>1. d.events \in Seq(Event) /\ LedgerVerifies(d)
  BY DatabaseTypes, MatchVerifies DEF Sound
<1>2. \A i \in 1..Len(d.events) : d.events[i].req.cid # c
  BY <1>1 DEF LedgerVerifies
<1> QED BY <1>2 DEF ChangesIn

(* One change of the ledger of projects, in terms of its values.           *)
Spends(P, D, D2, c, p) ==
  /\ \A change \in D : change.cid # c
  /\ D2 = D \cup {[cid |-> c, id |-> p, expected |-> P[p].rev]}

Replaces(P, P2, p, root, trust, settings) ==
  P2 = [P EXCEPT ![p] = [rev |-> P[p].rev + 1, root |-> root, trust |-> trust,
                         settings |-> settings]]

Creates(P, P2, p, root, settings) ==
  /\ ~(P[p].rev > 0)
  /\ \A q \in Projects : P[q].rev > 0 => P[q].root # root
  /\ Replaces(P, P2, p, root, "untrusted", settings)

Trusting(P, P2, p, trust) ==
  /\ P[p].rev > 0
  /\ P[p].trust = "revoked" => trust # "trusted"
  /\ Replaces(P, P2, p, P[p].root, trust, P[p].settings)

Sets(P, P2, p, setting, value) ==
  /\ P[p].rev > 0
  /\ Replaces(P, P2, p, P[p].root, P[p].trust, [P[p].settings EXCEPT ![setting] = value])

Changes(P, P2, D, D2) ==
  \E c \in Commands, p \in Projects :
    /\ Spends(P, D, D2, c, p)
    /\ \/ \E root \in Roots, settings \in [Settings -> Values] :
            Creates(P, P2, p, root, settings)
       \/ \E trust \in Trusts : Trusting(P, P2, p, trust)
       \/ \E setting \in Settings, value \in Values : Sets(P, P2, p, setting, value)

(* A committed command for a project is one change.                        *)
LEMMA ProjectChanges ==
  ASSUME NEW d, Sound(d), ProjectionsCurrent(d), NEW env \in ClientEnvelopes,
         env.id \in Projects, d.receipts[env.cid] = NoReceipt, ProjectPermits(d, env),
         NEW d2, d2 = ExecuteProject(d, env), NEW P, P = LogProjects(d.events),
         NEW D, D = ChangesIn(d.events)
  PROVE  Changes(P, LogProjects(d2.events), D, ChangesIn(d2.events))
<1>1. /\ env \in Envelope /\ env.cid \in Commands /\ env.cmd \in ClientProjectCommand
  BY ClientEnvelopesTyped, StoreAssumption DEF ClientEnvelopes, EnvelopeOf
<1>2. PICK p \in Projects : p = env.id
  OBVIOUS
<1>3. PICK row : row = d.projects[p]
  OBVIOUS
<1>4. d.projects \in [Projects -> ProjectRow \cup {NoRow}]
  BY DatabaseTypes DEF Sound
<1>5. PICK next : next = NextProject(row, env, Len(d.events) + 1)
  OBVIOUS
<1>6. Sound(d2) /\ ProjectionsCurrent(d2)
  BY <1>1, ProjectCommit
<1>7. d2.projects = [d.projects EXCEPT ![p] = next]
  BY <1>2, <1>3, <1>5 DEF ExecuteProject
<1>8. row \in ProjectRow \cup {NoRow} /\ env.cmd \in ProjectCommand
  BY <1>1, <1>3, <1>4 DEF ProjectCommand
<1>9. ProjectMoves(row, env.cmd) /\ env.expected = Revision(row)
  BY <1>2, <1>3 DEF ProjectPermits
<1>10. next.rev \in Nat
  BY <1>5, <1>8, <1>9, NextProjectFacts
<1>11. PICK e : e = [rev |-> next.rev, req |-> env]
  OBVIOUS
<1>12. e \in Event /\ Extends(d2.events, d.events, e)
  <2>1. d \in Database
    BY DEF Sound
  <2>2. d2.events = Recorded(d, env, next.rev).events
    BY <1>2, <1>3, <1>5 DEF ExecuteProject
  <2> QED BY <1>1, <1>10, <1>11, <2>1, <2>2, RecordedEvent
<1>13. next \in ProjectRow
  <2>1. d2.projects[p] = next
    BY <1>4, <1>7
  <2>2. PICK ev \in Seq(Event) : ev = d2.events /\ Applies(ev, Len(ev)) /\ Len(ev) \in Nat
    BY <1>6, DatabaseTypes DEF Sound
  <2>3. next = ReplayProject(ev, Len(ev), p)
    BY <1>6, <2>1, <2>2 DEF ProjectionsCurrent, ProjectsCurrent, ReplayProjects
  <2>4. /\ Len(ev) = Len(d.events) + 1 /\ Len(d.events) \in Nat
        /\ ev[Len(d.events) + 1] = e
    <3>1. d.events \in Seq(Event)
      BY DatabaseTypes DEF Sound
    <3> QED BY <1>12, <2>2, <3>1, ExtendsTypes
  <2>5. e.req.id = p
    BY <1>2, <1>11
  <2>6. Len(ev) \in EventsOf(ev, Len(ev), p)
    BY <2>2, <2>4, <2>5 DEF EventsOf
  <2>7. Len(ev) \in 0..Len(ev)
    BY <2>2
  <2> QED BY <2>2, <2>3, <2>6, <2>7, ProjectRowTyped
<1>14. /\ P = [q \in Projects |-> Shown(d.projects[q])]
       /\ LogProjects(d2.events) = [q \in Projects |-> Shown(d2.projects[q])]
  BY <1>6, ProjectsShown
<1>15. LogProjects(d2.events) = [P EXCEPT ![p] = Shown(next)]
  <2>1. \A q \in Projects : d2.projects[q] = IF q = p THEN next ELSE d.projects[q]
    BY <1>4, <1>7
  <2>2. \A q \in Projects : LogProjects(d2.events)[q] = IF q = p THEN Shown(next) ELSE P[q]
    <3>1. \A q \in Projects : /\ P[q] = Shown(d.projects[q])
                              /\ LogProjects(d2.events)[q] = Shown(d2.projects[q])
      BY <1>14
    <3> QED BY <2>1, <3>1
  <2> QED BY <1>14, <2>2
<1>16. P[p] = Shown(row) /\ Shown(row).rev = Revision(row)
  BY <1>3, <1>14 DEF Shown, Revision
<1>17. PICK D2 : /\ D2 = ChangesIn(d2.events)
                 /\ D2 = D \cup {[cid |-> env.cid, id |-> p, expected |-> P[p].rev]}
  <2>1. d.events \in Seq(Event)
    BY DatabaseTypes DEF Sound
  <2>2. e.req = env
    BY <1>11
  <2> QED BY <1>1, <1>2, <1>9, <1>12, <1>16, <2>1, <2>2, ChangesGrow
<1>18. Spends(P, D, D2, env.cid, p)
  <2>1. \A change \in D : change.cid # env.cid
    BY FreeCommand
  <2> QED BY <1>17, <2>1 DEF Spends
<1>19. row # NoRow => P[p].rev > 0
  BY <1>3, <1>16, RowsHaveRevisions DEF Revision
<1>20. PICK P2 : P2 = LogProjects(d2.events) /\ P2 = [P EXCEPT ![p] = Shown(next)]
  BY <1>15
<1>21. CASE env.cmd.op = "create"
  <2>1. /\ row = NoRow
        /\ Shown(next) = [rev |-> P[p].rev + 1, root |-> env.cmd.root,
                          trust |-> "untrusted", settings |-> env.cmd.settings]
    BY <1>1, <1>5, <1>8, <1>9, <1>13, <1>16, <1>21, ShownMoves
  <2>2. env.cmd.root \in Roots /\ env.cmd.settings \in [Settings -> Values]
    BY <1>8, <1>21, ProjectCommandTypes
  <2>3. ~(P[p].rev > 0)
    BY <1>16, <2>1 DEF Revision
  <2>4. \A q \in Projects : d.projects[q] # NoRow => d.projects[q].root # env.cmd.root
    <3>1. NextProject(row, env, 0) = Created(env.cmd, env, 0)
      BY <1>21, Zenon DEF NextProject
    <3>2. NextProject(row, env, 0).root = env.cmd.root
      BY <3>1 DEF Created
    <3> QED BY <1>2, <1>3, <2>1, <3>2 DEF ProjectPermits
  <2>5. \A q \in Projects : P[q].rev > 0 => P[q].root # env.cmd.root
    BY <1>14, <2>4 DEF Shown
  <2>6. Creates(P, P2, p, env.cmd.root, env.cmd.settings)
    BY <1>20, <2>1, <2>3, <2>5 DEF Creates, Replaces
  <2> QED BY <1>1, <1>17, <1>18, <1>20, <2>2, <2>6 DEF Changes
<1>22. CASE env.cmd.op = "set_trust"
  <2>1. /\ row # NoRow
        /\ P[p].trust = "revoked" => env.cmd.trust # "trusted"
        /\ Shown(next) = [rev |-> P[p].rev + 1, root |-> P[p].root,
                          trust |-> env.cmd.trust, settings |-> P[p].settings]
    BY <1>1, <1>5, <1>8, <1>9, <1>13, <1>16, <1>22, ShownMoves
  <2>2. env.cmd.trust \in Trusts
    BY <1>8, <1>22, ProjectCommandTypes
  <2>3. Trusting(P, P2, p, env.cmd.trust)
    BY <1>19, <1>20, <2>1 DEF Trusting, Replaces
  <2> QED BY <1>1, <1>17, <1>18, <1>20, <2>2, <2>3 DEF Changes
<1>23. CASE env.cmd.op = "set"
  <2>1. /\ row # NoRow
        /\ Shown(next) = [rev |-> P[p].rev + 1, root |-> P[p].root, trust |-> P[p].trust,
                          settings |-> [P[p].settings EXCEPT
                                          ![env.cmd.setting] = env.cmd.value]]
    BY <1>1, <1>5, <1>8, <1>9, <1>13, <1>16, <1>23, ShownMoves
  <2>2. env.cmd.setting \in Settings /\ env.cmd.value \in Values
    BY <1>8, <1>23, ProjectCommandTypes
  <2>3. Sets(P, P2, p, env.cmd.setting, env.cmd.value)
    BY <1>19, <1>20, <2>1 DEF Sets, Replaces
  <2> QED BY <1>1, <1>17, <1>18, <1>20, <2>2, <2>3 DEF Changes
<1> QED BY <1>1, <1>21, <1>22, <1>23, Zenon DEF ClientProjectCommand

(* A command for an effect changes no project.                             *)
LEMMA EffectChangesNone ==
  ASSUME NEW d, Sound(d), NEW env \in Envelope, env.id \in Actions,
         EffectPermits(d, env), NEW d2, d2 = ExecuteEffect(d, env)
  PROVE  d2.projects = d.projects /\ ChangesIn(d2.events) = ChangesIn(d.events)
<1>1. PICK row : row = d.effects[env.id]
  OBVIOUS
<1>2. PICK next : next = NextEffect(row, env, Len(d.events) + 1)
  OBVIOUS
<1>3. row \in EffectRow \cup {NoRow} /\ d \in Database /\ d.events \in Seq(Event)
  BY <1>1, DatabaseTypes DEF Sound
<1>4. env.id \notin Projects /\ env.cmd \in EffectCommand
  BY EnvelopeTypes, StoreAssumption
<1>5. EffectMoves(row, env.cmd)
  BY <1>1 DEF EffectPermits
<1>6. next.rev \in Nat
  BY <1>2, <1>3, <1>4, <1>5, NextEffectFacts
<1>7. PICK e : e = [rev |-> next.rev, req |-> env]
  OBVIOUS
<1>8. d2.events = Recorded(d, env, next.rev).events /\ d2.projects = d.projects
  BY <1>1, <1>2 DEF ExecuteEffect
<1>9. e \in Event /\ Extends(d2.events, d.events, e)
  BY <1>3, <1>6, <1>7, <1>8, RecordedEvent
<1>10. e.req.id \notin Projects
  BY <1>4, <1>7
<1> QED BY <1>3, <1>8, <1>9, <1>10, ChangesGrow

(* A client's command is one change, or none.                              *)
LEMMA ExecuteChanges ==
  ASSUME ProjectInv, Inv', NEW env \in ClientEnvelopes, Execute(env)
  PROVE  \/ /\ LogProjects(db'.events) = LogProjects(db.events)
            /\ ChangesIn(db'.events) = ChangesIn(db.events)
         \/ Changes(LogProjects(db.events), LogProjects(db'.events),
                    ChangesIn(db.events), ChangesIn(db'.events))
<1>1. /\ mode = "open" /\ mode' = "open" /\ Sound(db) /\ ProjectionsCurrent(db)
      /\ Sound(db') /\ ProjectionsCurrent(db')
  BY DEF Execute, ProjectInv, Inv
<1>2. CASE Outcome(db, env) # "committed"
  BY <1>2 DEF Execute
<1>3. CASE Outcome(db, env) = "committed"
  <2>1. db.receipts[env.cid] = NoReceipt
    BY <1>3, Zenon DEF Outcome
  <2>2. Permits(db, env)
    BY <1>3, Zenon DEF Outcome
  <2>3. PICK d2 : d2 = Committed(db, env) /\ db' = d2
    BY <1>3 DEF Execute
  <2>4. CASE env.id \in Projects
    <3>1. ProjectPermits(db, env) /\ d2 = ExecuteProject(db, env)
      BY <2>2, <2>3, <2>4 DEF Permits, Committed
    <3> QED BY <1>1, <2>1, <2>3, <2>4, <3>1, ProjectChanges
  <2>5. CASE env.id \notin Projects
    <3>1. EffectPermits(db, env) /\ d2 = ExecuteEffect(db, env)
      BY <2>2, <2>3, <2>5 DEF Permits, Committed
    <3>2. env \in Envelope /\ env.id \in Actions
      BY <2>5, ClientEnvelopesTyped, EnvelopeTypes
    <3>3. d2.projects = db.projects /\ ChangesIn(d2.events) = ChangesIn(db.events)
      BY <1>1, <3>1, <3>2, EffectChangesNone
    <3>4. LogProjects(d2.events) = LogProjects(db.events)
      BY <1>1, <2>3, <3>3, ProjectsShown
    <3> QED BY <2>3, <3>3, <3>4
  <2> QED BY <2>4, <2>5
<1> QED BY <1>2, <1>3

(* Without a ledger there are neither projects nor changes.                *)
LEMMA NothingLogged ==
  ASSUME db.events = <<>>
  PROVE  /\ LogProjects(db.events) = [p \in Projects |-> [rev |-> 0]]
         /\ ChangesIn(db.events) = {}
<1>1. \A p \in Projects : EventsOf(db.events, Len(db.events), p) = {}
  BY DEF EventsOf
<1>2. \A p \in Projects : Known(db.events, EventsOf(db.events, Len(db.events), p)) = [rev |-> 0]
  BY <1>1 DEF Known
<1> QED BY <1>2 DEF LogProjects, ChangesIn

(* The commit of an upgrade adopts all the old projects.                   *)
LEMMA UpgradeAdopts ==
  ASSUME ProjectInv, CommitUpgrade
  PROVE  \/ db' = db
         \/ /\ LogProjects(db.events) = [p \in Projects |-> [rev |-> 0]]
            /\ ChangesIn(db.events) = {} /\ ChangesIn(db'.events) = {}
            /\ \E rows \in Legacy :
                 LogProjects(db'.events) = [p \in Projects |-> Shown(rows[p])]
<1>1. /\ mode = "upgrading" /\ Unledgered(db) /\ Imports(db, tx.work) /\ AllImported
      /\ db.projects \in Legacy /\ ChangesIn(tx.work.events) = {} /\ db \in Database
      /\ db' = db \/ (db' = tx.work /\ ImportsValid(tx.work))
  BY DEF CommitUpgrade, ProjectInv, Inv, Sound
<1>2. CASE db' = tx.work /\ ImportsValid(tx.work)
  <2>1. PICK d : d = tx.work
    OBVIOUS
  <2>2. /\ ProjectionsCurrent(d) /\ Sound(d) /\ d \in Database
        /\ \A p \in Projects : d.projects[p] # NoRow =>
             /\ db.projects[p] # NoRow
             /\ SameButSequence(d.projects[p], db.projects[p])
    BY <1>1, <1>2, <2>1 DEF Imports
  <2>3. \A p \in Projects : d.projects[p] = NoRow => db.projects[p] = NoRow
    BY <1>1, <2>1 DEF AllImported
  <2>4. /\ d.projects \in [Projects -> ProjectRow \cup {NoRow}]
        /\ db.projects \in [Projects -> ProjectRow \cup {NoRow}]
    BY <1>1, <2>2, DatabaseTypes
  <2>5. ASSUME NEW p \in Projects PROVE Shown(d.projects[p]) = Shown(db.projects[p])
    <3>1. CASE d.projects[p] = NoRow
      BY <2>3, <3>1
    <3>2. CASE d.projects[p] # NoRow
      <4>1. PICK row \in ProjectRow : row = d.projects[p]
        BY <2>4, <3>2
      <4>2. PICK other \in ProjectRow : other = db.projects[p]
        BY <2>2, <2>4, <3>2
      <4>3. [row EXCEPT !.seq = 0] = [other EXCEPT !.seq = 0]
        BY <2>2, <3>2, <4>1, <4>2 DEF SameButSequence
      <4>4. /\ row.rev = other.rev /\ row.root = other.root /\ row.trust = other.trust
            /\ row.settings = other.settings
        BY <4>3 DEF ProjectRow
      <4>5. row # NoRow /\ other # NoRow
        BY <2>2, <3>2, <4>1, <4>2
      <4> QED BY <4>1, <4>2, <4>4, <4>5 DEF Shown
    <3> QED BY <3>1, <3>2
  <2>6. LogProjects(d.events) = [p \in Projects |-> Shown(db.projects[p])]
    BY <2>2, <2>5, ProjectsShown
  <2>7. db.events = <<>>
    BY <1>1 DEF Unledgered
  <2> QED BY <1>1, <1>2, <2>1, <2>6, <2>7, NothingLogged
<1> QED BY <1>1, <1>2

(* The commit of a recovery changes no project.                            *)
LEMMA RecoveryChangesNone ==
  ASSUME ProjectInv, CommitRecovery
  PROVE  /\ LogProjects(db'.events) = LogProjects(db.events)
         /\ ChangesIn(db'.events) = ChangesIn(db.events)
<1>1. /\ mode = "recovering" /\ db' = tx.work /\ ProjectionsCurrent(db)
      /\ ProjectionsCurrent(tx.work) /\ tx.work.projects = db.projects
      /\ Sound(db) /\ Sound(tx.work)
      /\ ChangesIn(tx.work.events) = ChangesIn(db.events)
  BY DEF CommitRecovery, ProjectInv, Inv
<1>2. PICK d : d = tx.work
  OBVIOUS
<1>3. LogProjects(d.events) = LogProjects(db.events)
  BY <1>1, <1>2, ProjectsShown
<1> QED BY <1>1, <1>2, <1>3

-----------------------------------------------------------------------------
(* What the working copies say of projects is an invariant.                *)

(* An import is no client's change.                                        *)
LEMMA ImportChangesNone ==
  ASSUME ProjectInv, NEW p \in Projects, ImportProject(p)
  PROVE  ProjectInv'
<1>1. /\ Inv' /\ mode = "upgrading" /\ mode' = mode /\ db' = db
      /\ db.projects \in Legacy /\ ChangesIn(tx.work.events) = {}
      /\ Imports(db, tx.work) /\ db \in Database
      /\ db.projects[p] # NoRow /\ tx.work.projects[p] = NoRow
      /\ tx'.work = ExecuteProject(tx.work, ImportEnvelope(p))
  BY ImportStep DEF ProjectInv, Inv, Sound, ImportProject
<1>2. PICK d \in Database : d = tx.work
  BY <1>1 DEF Imports
<1>3. PICK row \in ProjectRow : row = db.projects[p]
  BY <1>1, DatabaseTypes
<1>4. PICK env : env = ImportEnvelope(p)
  OBVIOUS
<1>5. env \in Envelope /\ env.cid = p /\ env.id = p /\ env.cmd.op = "import" /\ env.cmd.rev \in Nat
  BY <1>1, <1>3, <1>4, ImportEnvelopeTyped DEF ProjectRow
<1>6. PICK next : next = NextProject(d.projects[p], env, Len(d.events) + 1)
  OBVIOUS
<1>7. next.rev \in Nat
  <2>1. next = Imported(env.cmd, env, Len(d.events) + 1)
    BY <1>5, <1>6, Zenon DEF NextProject
  <2> QED BY <1>5, <2>1 DEF Imported
<1>8. PICK e : e = [rev |-> next.rev, req |-> env]
  OBVIOUS
<1>9. PICK d2 : d2 = tx'.work /\ d2 = ExecuteProject(d, env)
  BY <1>1, <1>2, <1>4
<1>10. d2.events = Recorded(d, env, next.rev).events
  BY <1>5, <1>6, <1>9 DEF ExecuteProject
<1>11. e \in Event /\ Extends(d2.events, d.events, e) /\ d.events \in Seq(Event)
  BY <1>5, <1>7, <1>8, <1>10, RecordedEvent, DatabaseTypes
<1>12. e.req.cid \notin Commands
  BY <1>5, <1>8, StoreAssumption
<1>13. ChangesIn(d2.events) = {}
  BY <1>1, <1>2, <1>11, <1>12, ChangesGrow
<1> QED BY <1>1, <1>9, <1>13 DEF ProjectInv

(* Recovery changes effects.                                               *)
LEMMA RecoverChangesNone ==
  ASSUME ProjectInv, NEW x \in Actions, RecoverEffect(x)
  PROVE  ProjectInv'
<1>1. /\ Inv' /\ db' = db /\ mode = "recovering" /\ Sound(tx.work) /\ tx.now \in Clock
      /\ tx.work.projects = db.projects /\ ChangesIn(tx.work.events) = ChangesIn(db.events)
      /\ x \in Started(tx.work)
  BY RecoverEffectStep DEF ProjectInv, RecoverEffect, Inv
<1>2. PICK cid \in RecoveryIds :
        IF EffectPermits(tx.work, RecoveryEnvelope(x, cid))
        THEN /\ tx' = [work |-> ExecuteEffect(tx.work, RecoveryEnvelope(x, cid)),
                       now |-> tx.now]
             /\ mode' = mode
        ELSE tx' = NoTx /\ mode' = "failed"
  BY DEF RecoverEffect
<1>3. PICK env \in Envelope : env = RecoveryEnvelope(x, cid) /\ env.id = x
  BY <1>1, RecoveryEnvelopeTyped DEF Sound
<1>4. PICK d : d = tx.work
  OBVIOUS
<1>5. CASE EffectPermits(d, env)
  <2>1. PICK d2 : d2 = ExecuteEffect(d, env)
    OBVIOUS
  <2>2. mode' = "recovering" /\ tx'.work = d2
    BY <1>1, <1>2, <1>3, <1>4, <1>5, <2>1
  <2>3. d2.projects = d.projects /\ ChangesIn(d2.events) = ChangesIn(d.events)
    BY <1>1, <1>3, <1>4, <1>5, <2>1, EffectChangesNone
  <2> QED BY <1>1, <1>4, <2>2, <2>3 DEF ProjectInv
<1>6. CASE ~EffectPermits(d, env)
  <2>1. mode' = "failed"
    BY <1>2, <1>3, <1>4, <1>6
  <2> QED BY <1>1, <2>1 DEF ProjectInv
<1> QED BY <1>5, <1>6

(* No other step is taken inside a transaction, or it opens or ends one.   *)
LEMMA ProjectStep ==
  ASSUME ProjectInv, [Next]_vars
  PROVE  ProjectInv'
<1>1. Inv /\ Inv'
  BY StepInv DEF ProjectInv
<1>2. CASE BeginUpgrade
  <2>1. /\ mode \in {"unmigrated", "refused"} /\ mode' = "upgrading" /\ db' = db
        /\ tx'.work.events = <<>>
    BY <1>2 DEF BeginUpgrade, EmptyDatabase
  <2>2. ChangesIn(tx'.work.events) = {}
    BY <2>1 DEF ChangesIn
  <2> QED BY <1>1, <2>1, <2>2 DEF ProjectInv
<1>3. CASE BeginRecovery
  <2>1. mode' = "recovering" /\ db' = db /\ \E now \in Clock : tx' = [work |-> db, now |-> now]
    BY <1>3 DEF BeginRecovery
  <2>2. tx'.work = db'
    BY <2>1
  <2> QED BY <1>1, <2>1, <2>2 DEF ProjectInv
<1>4. ASSUME NEW p \in Projects, ImportProject(p)
      PROVE  ProjectInv'
  BY <1>4, ImportChangesNone
<1>5. ASSUME NEW a \in Actions, RecoverEffect(a)
      PROVE  ProjectInv'
  BY <1>5, RecoverChangesNone
<1>6. ASSUME NEW env \in ClientEnvelopes, Execute(env)
      PROVE  ProjectInv'
  <2>1. mode' = "open"
    BY <1>6 DEF Execute
  <2> QED BY <1>1, <2>1 DEF ProjectInv
<1>7. CASE CommitUpgrade
  <2>1. mode = "upgrading" /\ (mode' = "opening" \/ (mode' = "refused" /\ db' = db))
    BY <1>7 DEF CommitUpgrade
  <2> QED BY <1>1, <2>1 DEF ProjectInv
<1>8. CASE Crash
  <2>1. db' = db /\ (mode' = "closed" \/ (mode' = "unmigrated" /\ mode = "upgrading"))
    BY <1>8 DEF Crash, Closed
  <2> QED BY <1>1, <2>1 DEF ProjectInv
<1>9. CASE StartOpen \/ VerifyAndRepair \/ CommitRecovery \/ Damage
  <2>1. mode' \notin {"unmigrated", "upgrading", "refused", "recovering"}
    BY <1>9 DEF StartOpen, VerifyAndRepair, CommitRecovery, Damage
  <2> QED BY <1>1, <2>1 DEF ProjectInv
<1>10. CASE UNCHANGED vars
  BY <1>1, <1>10 DEF ProjectInv, vars
<1> QED BY <1>2, <1>3, <1>4, <1>5, <1>6, <1>7, <1>8, <1>9, <1>10 DEF Next

registered == <<LogProjects(db.events), ChangesIn(db.events)>>

(* One change of values is one step of the ledger of projects.             *)
LEMMA ChangeIsStep ==
  ASSUME Changes(LogProjects(db.events), LogProjects(db'.events),
                 ChangesIn(db.events), ChangesIn(db'.events))
  PROVE  Register!Next
BY DEF Changes, Spends, Replaces, Creates, Trusting, Sets, Register!Next, Register!Spend,
       Register!Change, Register!Create, Register!SetTrust, Register!Set, Register!Becomes,
       Register!Present, LogProjects, Trusts

(* Every step changes the projects of the log as the ledger allows.        *)
LEMMA RegisterStep ==
  ASSUME ProjectInv, Inv', [Next]_vars
  PROVE  [Register!Next]_registered
<1>1. CASE db'.events = db.events
  BY <1>1 DEF registered
<1>2. ASSUME NEW env \in ClientEnvelopes, Execute(env)
      PROVE  [Register!Next]_registered
  BY <1>2, ExecuteChanges, ChangeIsStep DEF registered
<1>3. CASE CommitRecovery
  BY <1>3, RecoveryChangesNone DEF registered
<1>4. CASE CommitUpgrade
  <2>1. CASE db' = db
    BY <1>1, <2>1
  <2>2. CASE db' # db
    <3>1. /\ LogProjects(db.events) = [p \in Projects |-> [rev |-> 0]]
          /\ ChangesIn(db.events) = {} /\ ChangesIn(db'.events) = {}
          /\ \E rows \in Legacy :
               LogProjects(db'.events) = [p \in Projects |-> Shown(rows[p])]
      BY <1>4, <2>2, UpgradeAdopts
    <3>2. \A p \in Projects : ~(LogProjects(db.events)[p].rev > 0)
      BY <3>1
    <3>3. LogProjects(db'.events) \in {[p \in Projects |-> Shown(rows[p])] : rows \in Legacy}
      BY <3>1
    <3>4. Register!Adopt
      BY <3>1, <3>2, <3>3 DEF Register!Adopt, Register!Present, LogProjects
    <3> QED BY <3>4 DEF Register!Next
  <2> QED BY <2>1, <2>2
<1>5. CASE BeginUpgrade \/ StartOpen \/ VerifyAndRepair \/ BeginRecovery \/ Crash \/ Damage
  <2>1. db' = db \/ db' = Rebuilt(db) \/ db' \in StaleProjections(db) \cup OverwrittenFields(db)
    BY <1>5 DEF BeginUpgrade, StartOpen, VerifyAndRepair, BeginRecovery, Crash, Damage
  <2>2. db'.events = db.events
    BY <2>1 DEF Rebuilt, StaleProjections, OverwrittenFields, WithProjections
  <2> QED BY <1>1, <2>2
<1>6. ASSUME \/ \E p \in Projects : ImportProject(p)
             \/ \E a \in Actions : RecoverEffect(a)
             \/ UNCHANGED vars
      PROVE  db'.events = db.events
  BY <1>6 DEF ImportProject, RecoverEffect, vars
<1> QED BY <1>1, <1>2, <1>3, <1>4, <1>5, <1>6 DEF Next

(* At first there are at most old projects.                                *)
LEMMA ProjectInit ==
  ASSUME Init
  PROVE  ProjectInv /\ Register!Init
<1>1. PICK rows \in Legacy : db = [EmptyDatabase EXCEPT !.projects = rows]
  BY DEF Init
<1>2. db.events = <<>> /\ mode = "unmigrated" /\ db.projects = rows
  BY <1>1 DEF Init, EmptyDatabase
<1>3. /\ LogProjects(db.events) = [p \in Projects |-> [rev |-> 0]]
      /\ ChangesIn(db.events) = {}
  BY <1>2, NothingLogged
<1> QED BY <1>2, <1>3, InitInv DEF ProjectInv, Register!Init, Register!Absent, LogProjects

(* The store implements ProjectLedger: whatever commands are sent, repeated*)
(* or refused, whatever rows are damaged and rebuilt, and whenever the host*)
(* dies, a project changes only by a command that was not used before and  *)
(* expected the revision it found, no root is used twice, revoked trust    *)
(* returns only by way of untrusted, and old projects come all together.   *)
THEOREM ProjectsAsPromised ==
  Spec => ImplementsProjectLedger
<1>1. Init => ProjectInv /\ Register!Init
  BY ProjectInit
<1>2. ProjectInv /\ [Next]_vars => ProjectInv'
  BY ProjectStep
<1>3. ProjectInv /\ ProjectInv' /\ [Next]_vars => [Register!Next]_registered
  BY RegisterStep DEF ProjectInv
<1> QED BY <1>1, <1>2, <1>3, PTL
     DEF Spec, ImplementsProjectLedger, Register!Spec, registered, LogProjects

-----------------------------------------------------------------------------
(* What can make a startup fail.                                           *)

(* A row that stands for an effect is valid, and was authorized by the     *)
(* first event of the effect.                                              *)
LEMMA EffectRowsValid ==
  ASSUME NEW d, Sound(d), ProjectionsCurrent(d), NEW a \in Actions, d.effects[a] # NoRow
  PROVE  /\ d.effects[a] \in EffectRow /\ EffectValid(d.effects[a])
         /\ \E i \in 1..Len(d.events) : /\ d.events[i].req.cmd.op = "authorize"
                                        /\ d.effects[a].authorized = d.events[i].req.at
<1>1. PICK ev \in Seq(Event) : ev = d.events /\ Applies(ev, Len(ev)) /\ Len(ev) \in Nat
  BY DatabaseTypes DEF Sound
<1>2. PICK n \in 0..Len(ev) : n = Len(ev)
  BY <1>1
<1>3. d.effects \in [Actions -> EffectRow \cup {NoRow}]
  BY DatabaseTypes DEF Sound
<1>4. d.effects[a] = ReplayEffect(ev, n, a)
  BY <1>1, <1>2 DEF ProjectionsCurrent, EffectsCurrent, ReplayEffects
<1>5. PICK S : S = EventsOf(ev, n, a)
  OBVIOUS
<1>6. S # {} /\ S \in SUBSET (1..n) /\ n \in Nat
  BY <1>1, <1>2, <1>4, <1>5 DEF ReplayEffect, EffectOf, EventsOf
<1>7. PICK i \in S : i = Latest(S) /\ \A j \in S : j <= i
  BY <1>6, LatestIs
<1>8. EventsOf(ev, i, a) = S
  <2>1. i \in 1..n
    BY <1>6
  <2>2. \A j : j \in S <=> j \in 1..n /\ ev[j].req.id = a
    BY <1>5 DEF EventsOf
  <2>3. \A j \in S : j \in 1..i
    BY <1>6, <1>7, <2>1
  <2>4. \A j \in 1..i : j \in 1..n
    BY <1>6, <2>1
  <2>5. \A j : j \in S <=> j \in 1..i /\ ev[j].req.id = a
    BY <2>2, <2>3, <2>4
  <2> QED BY <2>5 DEF EventsOf
<1>9. ReplayEffect(ev, i, a) = ReplayEffect(ev, n, a)
  BY <1>5, <1>8 DEF ReplayEffect
<1>10. EventApplies(ev, i) /\ ev[i].req.id = a /\ a \notin Projects
  BY <1>1, <1>2, <1>5, <1>6, StoreAssumption DEF Applies, EventsOf
<1>11. EffectValid(d.effects[a])
  BY <1>4, <1>9, <1>10 DEF EventApplies
<1>12. Applies(ev, n)
  BY <1>1, <1>2
<1>13. PICK k \in 1..n : k = Earliest(S)
  BY <1>1, <1>5, <1>6, FirstEvent
<1>14. ev[k].req.cmd.op = "authorize"
  BY <1>1, <1>5, <1>6, <1>12, <1>13, EffectBirth
<1>15. d.effects[a].authorized = ev[k].req.at
  BY <1>4, <1>5, <1>6, <1>13 DEF ReplayEffect, EffectOf
<1>16. d.effects[a] \in EffectRow
  BY <1>3
<1> QED BY <1>1, <1>2, <1>11, <1>13, <1>14, <1>15, <1>16

(* Recovery may mark a started effect unknown exactly when the clock reads *)
(* no less than the time at which the effect was authorized.               *)
LEMMA RecoveryPermitted ==
  ASSUME Sound(tx.work), ProjectionsCurrent(tx.work), tx.now \in Clock,
         NEW a \in Actions, a \in Started(tx.work), NEW cid \in RecoveryIds
  PROVE  EffectPermits(tx.work, RecoveryEnvelope(a, cid))
           <=> tx.work.effects[a].authorized <= tx.now
<1>1. PICK row : row = tx.work.effects[a]
  OBVIOUS
<1>2. row # NoRow /\ row.phase = "started"
  BY <1>1 DEF Started
<1>3. row \in EffectRow /\ EffectValid(row)
  BY <1>1, <1>2, EffectRowsValid
<1>4. PICK env : env = RecoveryEnvelope(a, cid)
  OBVIOUS
<1>5. /\ env.id = a /\ env.expected = row.rev /\ env.at = tx.now
      /\ env.cmd.op = "mark_unknown"
  BY <1>1, <1>4 DEF RecoveryEnvelope
<1>6. PICK next : next = NextEffect(row, env, 0)
  OBVIOUS
<1>7. next = Advanced(row, "unknown", row.result, row.started, row.finished, env.at, 0)
  BY <1>5, <1>6, Zenon DEF NextEffect
<1>8. /\ row.rev \in Nat /\ row.authorized \in Nat /\ tx.now \in Nat
      /\ row.started \in Nat \cup {NoTime} /\ row.finished \in Nat \cup {NoTime}
  BY <1>3, StoreAssumption DEF EffectRow
<1>9. /\ next.rev = row.rev + 1 /\ next.phase = "unknown" /\ next.result = row.result
      /\ next.authorized = row.authorized /\ next.started = row.started
      /\ next.finished = row.finished /\ next.updated = tx.now
  BY <1>5, <1>7 DEF Advanced
<1>10. /\ row.started # NoTime /\ row.authorized <= row.started
       /\ row.finished = NoTime /\ row.result = NoResult
  BY <1>2, <1>3 DEF EffectValid
<1>11. EffectValid(next) <=> row.authorized <= tx.now
  BY <1>8, <1>9, <1>10 DEF EffectValid
<1>12. EffectMoves(row, env.cmd) /\ env.expected = Revision(row)
  BY <1>2, <1>5 DEF EffectMoves, Revision
<1> QED BY <1>1, <1>4, <1>5, <1>6, <1>11, <1>12 DEF EffectPermits

(* The clock reads less than the time at which an interrupted effect was   *)
(* authorized.                                                             *)
ClockBehind ==
  mode = "recovering" /\ \E a \in Started(tx.work) : tx.now < tx.work.effects[a].authorized

OldProjectsValid == \A p \in Projects : db.projects[p] # NoRow => ProjectValid(db.projects[p])

StartupFailsForTwoReasons ==
  [][ /\ mode' = "failed" /\ mode # "failed" => ClockBehind
      /\ mode' = "refused" /\ mode # "refused" => mode = "upgrading" /\ ~OldProjectsValid
      /\ mode = "upgrading" /\ mode' = "opening" => OldProjectsValid ]_vars

(* No other step of a recovery or a verification fails: the ledger always  *)
(* verifies and replays.                                                   *)
LEMMA FailingStep ==
  ASSUME Inv, [Next]_vars, mode' = "failed", mode # "failed"
  PROVE  ClockBehind
<1>1. ASSUME VerifyAndRepair PROVE FALSE
  <2>1. Sound(db) /\ ~VerificationPasses(db)
    BY <1>1 DEF VerifyAndRepair, Inv
  <2>2. LedgerVerifies(db) /\ ReplaySucceeds(db)
    BY <2>1, MatchVerifies DEF Sound, ReplaySucceeds, Applies
  <2> QED BY <2>1, <2>2 DEF VerificationPasses, Sound
<1>2. ASSUME NEW a \in Actions, RecoverEffect(a)
      PROVE  /\ mode = "recovering"
             /\ a \in Started(tx.work) /\ tx.now < tx.work.effects[a].authorized
  <2>1. /\ mode = "recovering" /\ a \in Started(tx.work) /\ tx.now \in Clock
        /\ Sound(tx.work) /\ ProjectionsCurrent(tx.work)
    BY <1>2 DEF RecoverEffect, Inv
  <2>2. PICK cid \in RecoveryIds :
          EffectPermits(tx.work, RecoveryEnvelope(a, cid)) => mode' = mode
    BY <1>2 DEF RecoverEffect
  <2>3. ~(tx.work.effects[a].authorized <= tx.now)
    BY <2>1, <2>2, RecoveryPermitted
  <2>4. tx.work.effects[a] \in EffectRow
    BY <2>1, EffectRowsValid DEF Started
  <2>5. tx.work.effects[a].authorized \in Nat /\ tx.now \in Nat
    BY <2>1, <2>4, StoreAssumption DEF EffectRow
  <2> QED BY <2>1, <2>3, <2>5
<1>3. ~(BeginUpgrade \/ CommitUpgrade \/ StartOpen \/ BeginRecovery \/ CommitRecovery
          \/ Crash \/ Damage \/ UNCHANGED vars)
  BY DEF BeginUpgrade, CommitUpgrade, StartOpen, BeginRecovery, CommitRecovery, Crash, Closed,
         Damage, vars
<1>4. /\ \A p \in Projects : ~ImportProject(p)
      /\ \A env \in ClientEnvelopes : ~Execute(env)
  BY DEF ImportProject, Execute
<1>5. PICK a \in Actions : RecoverEffect(a)
  BY <1>1, <1>3, <1>4 DEF Next
<1> QED BY <1>2, <1>5 DEF ClockBehind

(* A project is as valid as the old one it was imported from.              *)
LEMMA ImportsAsValid ==
  ASSUME Inv, mode = "upgrading", NEW p \in Projects, tx.work.projects[p] # NoRow
  PROVE  /\ db.projects[p] # NoRow
         /\ ProjectValid(tx.work.projects[p]) <=> ProjectValid(db.projects[p])
<1>1. /\ db \in Database /\ tx.work \in Database /\ db.projects[p] # NoRow
      /\ SameButSequence(tx.work.projects[p], db.projects[p])
  BY DEF Inv, Sound, Imports
<1>2. PICK new, old : new = tx.work.projects[p] /\ old = db.projects[p]
  OBVIOUS
<1>3. new \in ProjectRow /\ old \in ProjectRow
  BY <1>1, <1>2, DatabaseTypes
<1>4. [new EXCEPT !.seq = 0] = [old EXCEPT !.seq = 0]
  BY <1>1, <1>2 DEF SameButSequence
<1>5. /\ new.rev = old.rev /\ new.created = old.created /\ new.updated = old.updated
      /\ new.root = old.root
  BY <1>3, <1>4 DEF ProjectRow
<1> QED BY <1>1, <1>2, <1>5 DEF ProjectValid

(* An upgrade ends one way or the other, by the old projects.              *)
LEMMA UpgradeEnds ==
  ASSUME Inv, CommitUpgrade
  PROVE  mode = "upgrading" /\ mode' = IF OldProjectsValid THEN "opening" ELSE "refused"
<1>1. mode = "upgrading" /\ AllImported
      /\ mode' = IF ImportsValid(tx.work) THEN "opening" ELSE "refused"
  BY DEF CommitUpgrade
<1>2. ImportsValid(tx.work) <=> OldProjectsValid
  BY <1>1, ImportsAsValid DEF ImportsValid, OldProjectsValid, AllImported
<1> QED BY <1>1, <1>2

(* Only the end of an upgrade refuses one or leads out of one to opening.  *)
LEMMA RefusingStep ==
  ASSUME Inv, [Next]_vars,
         \/ mode' = "refused" /\ mode # "refused"
         \/ mode = "upgrading" /\ mode' = "opening"
  PROVE  CommitUpgrade
<1>1. ~(BeginUpgrade \/ StartOpen \/ VerifyAndRepair \/ BeginRecovery \/ CommitRecovery
          \/ Crash \/ Damage \/ UNCHANGED vars)
  BY DEF BeginUpgrade, StartOpen, VerifyAndRepair, BeginRecovery, CommitRecovery, Crash, Closed,
         Damage, vars
<1>2. /\ \A p \in Projects : ~ImportProject(p)
      /\ \A env \in ClientEnvelopes : ~Execute(env)
      /\ \A a \in Actions : ~RecoverEffect(a)
  BY DEF ImportProject, Execute, RecoverEffect
<1> QED BY <1>1, <1>2 DEF Next

(* Whatever was sent, damaged or interrupted before, Store::open returns an*)
(* error for two reasons only, of those the model has (a file that cannot  *)
(* be read or locked and an unknown schema are StoreFiles' matter): the    *)
(* clock reads less than the time a client put into the authorization of an*)
(* effect that is to be marked unknown (recover_started_side_effects       *)
(* validates the row it writes), or a project of version 1 is not valid    *)
(* (validate_imported_projects).  No upgrade with such a project goes on.  *)
THEOREM StartupFailures ==
  Spec => StartupFailsForTwoReasons
<1>1. Inv /\ [Next]_vars =>
        [ /\ mode' = "failed" /\ mode # "failed" => ClockBehind
          /\ mode' = "refused" /\ mode # "refused" => mode = "upgrading" /\ ~OldProjectsValid
          /\ mode = "upgrading" /\ mode' = "opening" => OldProjectsValid ]_vars
  BY FailingStep, RefusingStep, UpgradeEnds
<1> QED BY Invariance, <1>1, PTL DEF Spec, StartupFailsForTwoReasons

(* Effects are authorized at the times that clients put into envelopes.    *)
Timely(ev) ==
  \A i \in 1..Len(ev) : ev[i].req.cmd.op = "authorize" => ev[i].req.at \in Times

SteadyInv ==
  /\ ProjectInv
  /\ mode \notin {"failed", "refused"}
  /\ Timely(db.events)
  /\ mode \in {"upgrading", "recovering"} => Timely(tx.work.events)

(* What Append does to a sequence of any kind.                             *)
LEMMA AppendedTo ==
  ASSUME NEW T, NEW s \in Seq(T), NEW e \in T, NEW s2, s2 = Append(s, e)
  PROVE  /\ Len(s) \in Nat /\ Len(s2) = Len(s) + 1
         /\ \A i \in 1..Len(s) : s2[i] = s[i]
         /\ s2[Len(s) + 1] = e
OBVIOUS

(* A command that is a client's, or authorizes nothing, keeps a log timely.*)
LEMMA CommitTimely ==
  ASSUME NEW d \in Database, Timely(d.events), NEW env, NEW rev,
         env.cmd.op = "authorize" => env.at \in Times
  PROVE  Timely(Recorded(d, env, rev).events)
<1>1. PICK e : e = [rev |-> rev, req |-> env]
  OBVIOUS
<1>2. PICK T : e \in T /\ d.events \in Seq(T)
  <2>1. e \in Event \cup {e} /\ d.events \in Seq(Event \cup {e})
    BY DatabaseTypes
  <2> QED BY <2>1
<1>3. PICK ev \in Seq(T) : ev = d.events
  BY <1>2
<1>4. PICK ev2 : ev2 = Append(ev, e) /\ ev2 = Recorded(d, env, rev).events
  BY <1>1, <1>3 DEF Recorded
<1>5. /\ Len(ev) \in Nat /\ Len(ev2) = Len(ev) + 1
      /\ \A i \in 1..Len(ev) : ev2[i] = ev[i]
      /\ ev2[Len(ev) + 1] = e
  BY <1>2, <1>4, AppendedTo
<1>6. ASSUME NEW i \in 1..Len(ev2), ev2[i].req.cmd.op = "authorize"
      PROVE  ev2[i].req.at \in Times
  <2>1. CASE i \in 1..Len(ev)
    BY <1>3, <1>5, <1>6, <2>1 DEF Timely
  <2>2. CASE i = Len(ev) + 1
    BY <1>1, <1>5, <1>6, <2>2
  <2> QED BY <1>5, <2>1, <2>2
<1> QED BY <1>4, <1>6 DEF Timely

(* With such a clock every effect of a timely log can be marked unknown,   *)
(* every log stays timely, and such an upgrade is not refused.             *)
LEMMA SteadyStep ==
  ASSUME \A now \in Clock, t \in Times : t <= now,
         \A rows \in Legacy, p \in Projects : rows[p] # NoRow => ProjectValid(rows[p]),
         SteadyInv, [Next]_vars
  PROVE  SteadyInv'
<1>1. Inv /\ ProjectInv' /\ Timely(db.events) /\ db \in Database
  BY ProjectStep DEF SteadyInv, ProjectInv, Inv, Sound
<1>2. mode' \notin {"failed", "refused"}
  <2>7. ASSUME mode' = "refused" PROVE FALSE
    <3>1. mode = "upgrading" /\ ~OldProjectsValid
      BY <1>1, <2>7, RefusingStep, UpgradeEnds DEF SteadyInv
    <3>2. db.projects \in Legacy
      BY <3>1 DEF SteadyInv, ProjectInv
    <3> QED BY <3>1, <3>2 DEF OldProjectsValid
  <2> SUFFICES ASSUME mode' = "failed" PROVE FALSE
    BY <2>7
  <2>1. /\ mode = "recovering" /\ Sound(tx.work) /\ ProjectionsCurrent(tx.work)
        /\ tx.now \in Clock /\ Timely(tx.work.events)
    BY <1>1, FailingStep DEF SteadyInv, Inv, ClockBehind
  <2>2. PICK a \in Started(tx.work) : tx.now < tx.work.effects[a].authorized
    BY <1>1, FailingStep DEF SteadyInv, ClockBehind
  <2>3. a \in Actions /\ tx.work.effects[a] # NoRow
    BY DEF Started
  <2>4. tx.work.effects[a].authorized \in Times
    BY <2>1, <2>3, EffectRowsValid DEF Timely
  <2>5. tx.now \in Nat /\ tx.work.effects[a].authorized \in Nat
    BY <2>1, <2>4, StoreAssumption
  <2>6. tx.work.effects[a].authorized <= tx.now
    BY <2>1, <2>4
  <2> QED BY <2>2, <2>5, <2>6
<1>3. ASSUME NEW env \in ClientEnvelopes, Execute(env)
      PROVE  SteadyInv'
  <2>1. mode' = "open"
    BY <1>3 DEF Execute
  <2>2. CASE db' = db
    BY <1>1, <2>1, <2>2 DEF SteadyInv
  <2>3. CASE db' = Committed(db, env)
    <3>1. env.at \in Times
      BY DEF ClientEnvelopes, EnvelopeOf
    <3>2. \E rev : db'.events = Recorded(db, env, rev).events
      BY <2>3 DEF Committed, ExecuteProject, ExecuteEffect
    <3>3. Timely(db'.events)
      BY <1>1, <3>1, <3>2, CommitTimely
    <3> QED BY <1>1, <2>1, <3>3 DEF SteadyInv
  <2> QED BY <1>3, <2>2, <2>3 DEF Execute
<1>4. ASSUME NEW p \in Projects, ImportProject(p)
      PROVE  SteadyInv'
  <2>1. /\ mode = "upgrading" /\ mode' = mode /\ db' = db /\ tx.work \in Database
        /\ Timely(tx.work.events) /\ tx'.work = ExecuteProject(tx.work, ImportEnvelope(p))
    BY <1>4 DEF ImportProject, SteadyInv, ProjectInv, Inv, Imports
  <2>2. PICK env : env = ImportEnvelope(p)
    OBVIOUS
  <2>3. env.cmd.op = "import"
    BY <2>2 DEF ImportEnvelope
  <2>4. \E rev : ExecuteProject(tx.work, env).events = Recorded(tx.work, env, rev).events
    BY DEF ExecuteProject
  <2>5. Timely(ExecuteProject(tx.work, env).events)
    BY <2>1, <2>3, <2>4, CommitTimely
  <2> QED BY <1>1, <1>2, <2>1, <2>2, <2>5 DEF SteadyInv
<1>5. ASSUME NEW a \in Actions, RecoverEffect(a)
      PROVE  SteadyInv'
  <2>1. mode = "recovering" /\ db' = db /\ tx.work \in Database /\ Timely(tx.work.events)
    BY <1>5 DEF RecoverEffect, SteadyInv, ProjectInv, Inv, Sound
  <2>2. PICK cid \in RecoveryIds :
          /\ tx' = [work |-> ExecuteEffect(tx.work, RecoveryEnvelope(a, cid)), now |-> tx.now]
          /\ mode' = mode
    BY <1>2, <1>5 DEF RecoverEffect
  <2>3. PICK env : env = RecoveryEnvelope(a, cid)
    OBVIOUS
  <2>4. env.cmd.op = "mark_unknown"
    BY <2>3 DEF RecoveryEnvelope
  <2>5. \E rev : ExecuteEffect(tx.work, env).events = Recorded(tx.work, env, rev).events
    BY DEF ExecuteEffect
  <2>6. Timely(ExecuteEffect(tx.work, env).events)
    BY <2>1, <2>4, <2>5, CommitTimely
  <2>7. Timely(tx'.work.events)
    BY <2>2, <2>3, <2>6
  <2> QED BY <1>1, <1>2, <2>1, <2>7 DEF SteadyInv
<1>6. CASE BeginUpgrade \/ BeginRecovery
  <2>1. db' = db /\ (tx'.work.events = <<>> \/ tx'.work = db)
    BY <1>6 DEF BeginUpgrade, BeginRecovery, EmptyDatabase
  <2>2. Timely(tx'.work.events)
    BY <1>1, <2>1 DEF Timely
  <2> QED BY <1>1, <1>2, <2>1, <2>2 DEF SteadyInv
<1>7. CASE CommitUpgrade \/ CommitRecovery
  <2>1. mode' \in {"opening", "refused", "open"} /\ (db' = db \/ db' = tx.work)
        /\ mode \in {"upgrading", "recovering"}
    BY <1>7 DEF CommitUpgrade, CommitRecovery
  <2>2. Timely(db'.events)
    BY <1>1, <2>1 DEF SteadyInv
  <2> QED BY <1>1, <1>2, <2>1, <2>2 DEF SteadyInv
<1>8. CASE StartOpen \/ VerifyAndRepair \/ Crash \/ Damage
  <2>1. mode' \notin {"upgrading", "recovering"}
    BY <1>8 DEF StartOpen, VerifyAndRepair, Crash, Closed, Damage
  <2>2. db' = db \/ db' = Rebuilt(db) \/ db' \in StaleProjections(db) \cup OverwrittenFields(db)
    BY <1>8 DEF StartOpen, VerifyAndRepair, Crash, Damage
  <2>3. db'.events = db.events
    BY <2>2 DEF Rebuilt, StaleProjections, OverwrittenFields, WithProjections
  <2> QED BY <1>1, <1>2, <2>1, <2>3 DEF SteadyInv
<1>9. CASE UNCHANGED vars
  BY <1>1, <1>9 DEF SteadyInv, vars
<1> QED BY <1>3, <1>4, <1>5, <1>6, <1>7, <1>8, <1>9 DEF Next

(* Where the host's clock reads no less than any time that clients put     *)
(* into envelopes, and the projects of a version-1 database are valid, no  *)
(* startup fails for either reason, whatever the projections have suffered *)
(* and whenever the host died: what the crate's README promises, and a run *)
(* refutes for a clock that lags behind.                                   *)
THEOREM SteadyClock ==
  ASSUME \A now \in Clock, t \in Times : t <= now,
         \A rows \in Legacy, p \in Projects : rows[p] # NoRow => ProjectValid(rows[p])
  PROVE  Spec => []OpenNeverFails
<1>1. Init => SteadyInv
  <2> SUFFICES ASSUME Init PROVE SteadyInv
    OBVIOUS
  <2>1. db.events = <<>> /\ mode = "unmigrated"
    BY DEF Init, EmptyDatabase
  <2> QED BY <2>1, ProjectInit DEF SteadyInv, Timely
<1>2. SteadyInv /\ [Next]_vars => SteadyInv'
  BY SteadyStep
<1>3. SteadyInv => OpenNeverFails
  BY DEF SteadyInv, OpenNeverFails
<1> QED BY <1>1, <1>2, <1>3, PTL DEF Spec
=============================================================================
