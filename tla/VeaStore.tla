------------------------------ MODULE VeaStore ------------------------------
(***************************************************************************)
(* The durable store of Vea (crates/vea-store): an append-only event log,  *)
(* immutable command receipts and audit records, and the two materialized  *)
(* projections (projects and side effects) with their cursors, all kept in *)
(* one SQLite database.  Clients hand complete command envelopes to        *)
(* `Store::execute`; `Store::open` verifies the ledger, repairs the        *)
(* projections from it and turns interrupted side effects into unknowns.   *)
(*                                                                         *)
(* A database is a value (a record of tables), so that a transaction is an *)
(* operator from databases to databases: what SQLite commits is the whole  *)
(* of its result, what it rolls back is nothing.                           *)
(***************************************************************************)
EXTENDS Integers, Sequences

CONSTANTS
  Projects,      \* identifiers of project aggregates
  Actions,       \* identifiers of side-effect aggregates
  Commands,      \* command identifiers that clients draw from
  RecoveryIds,   \* fresh command identifiers drawn by startup recovery
  Roots,         \* repository roots (UNIQUE among projects)
  Malformed,     \* those of them that Project::validate refuses
  Settings,      \* plain project fields: display name, weight, policy
  Values,        \* values of those fields
  Approvals,     \* approval identifiers an authorization refers to
  Legacy,        \* the projects tables a version-1 database may have
  Times,         \* timestamps clients put into envelopes
  Clock,         \* values the host clock returns during recovery
  MaxRevision,   \* bound on the expected revision clients send
  MaxRebuilds,   \* bound on the projection rebuilds in the audit table
  NoRow,         \* an absent projection row
  NoReceipt,     \* an absent receipt
  NoTx           \* no transaction in progress

Aggregates == Projects \cup Actions
CommandIds == Commands \cup RecoveryIds \cup Projects   \* an import goes by its project

Trusts  == {"untrusted", "trusted", "revoked"}
Phases  == {"authorized", "started", "finished", "unknown"}
Results == {"succeeded", "failed"}
NoResult == "none"
NoTime == -1                                    \* SQL NULL in a time column

ClientProjectCommand ==
       [op : {"create"}, root : Roots, settings : [Settings -> Values]]
  \cup [op : {"set_trust"}, trust : Trusts]
  \cup [op : {"set"}, setting : Settings, value : Values]

(* What migration 2 records of a project it finds.                         *)
ImportCommand ==
  [op : {"import"}, root : Roots, settings : [Settings -> Values], trust : Trusts,
   rev : Nat, created : Nat]

ProjectCommand == ClientProjectCommand \cup ImportCommand

EffectCommand ==
       [op : {"authorize"}, approval : Approvals]
  \cup [op : {"start"}]
  \cup [op : {"finish"}, result : Results]
  \cup [op : {"mark_unknown"}]

(* The request digest covers every field, so an envelope is its digest.    *)
EnvelopeOf(cids, ids, revisions, times, commands) ==
  [cid : cids, id : ids, expected : revisions, at : times, cmd : commands]

Envelope ==
       EnvelopeOf(CommandIds, Projects, Nat, Nat, ProjectCommand)
  \cup EnvelopeOf(CommandIds, Actions, Nat, Nat, EffectCommand)

ClientEnvelopes ==
       EnvelopeOf(Commands, Projects, 0..MaxRevision, Times, ClientProjectCommand)
  \cup EnvelopeOf(Commands, Actions, 0..MaxRevision, Times, EffectCommand)

Event   == [rev : Nat, req : Envelope]
Receipt == [req : Envelope, rev : Nat, seq : Nat]
AuditClasses == Results \cup {"authorized", "started", "unknown"}
Audit   == [cid : CommandIds \cup {"rebuild"}, class : AuditClasses]

ProjectRow ==
  [rev : Nat, trust : Trusts, root : Roots, settings : [Settings -> Values],
   created : Nat, updated : Nat, seq : Nat]

EffectRow ==
  [rev : Nat, phase : Phases, result : Results \cup {NoResult},
   approval : Approvals, authorized : Nat, started : Nat \cup {NoTime},
   finished : Nat \cup {NoTime}, updated : Nat, seq : Nat]

Database ==
  [events : Seq(Event), receipts : [CommandIds -> Receipt \cup {NoReceipt}],
   audit : Seq(Audit),
   projects : [Projects -> ProjectRow \cup {NoRow}], projectCursor : Nat,
   effects : [Actions -> EffectRow \cup {NoRow}], effectCursor : Nat]

ASSUME StoreAssumption ==
  /\ Projects \cap Actions = {}
  /\ Commands \cap RecoveryIds = {}
  /\ Projects \cap (Commands \cup RecoveryIds) = {}
  /\ "rebuild" \notin CommandIds
  /\ Times \subseteq Nat
  /\ Clock \subseteq Nat
  /\ MaxRevision \in Nat
  /\ MaxRebuilds \in Nat
  /\ NoRow \notin ProjectRow \cup EffectRow
  /\ NoReceipt \notin Receipt

VARIABLES
  db,     \* the committed database
  mode,   \* how far the host got with Store::open, or "open"; "closed", or closed
          \* and "unmigrated" (of version 1 or empty); after Store::open returned an
          \* error "refused" if it was to upgrade, which undid nothing but itself, or
          \* "failed"
  tx      \* the transaction that upgrades or recovers: its working copy and timestamp

vars == <<db, mode, tx>>

Modes == {"unmigrated", "upgrading", "refused", "closed", "opening", "verified",
          "recovering", "open", "failed"}

-----------------------------------------------------------------------------
(* Rows: what a command makes of a row, and when a row is valid.           *)

Revision(row) == IF row = NoRow THEN 0 ELSE row.rev

(* Variant with a defect: every trust can be changed to every other.       *)
TrustMovesFreely(from, to) == from \in Trusts /\ to \in Trusts

TrustMoves(from, to) ==
  \/ from = to
  \/ <<from, to>> \in { <<"untrusted", "trusted">>, <<"untrusted", "revoked">>,
                        <<"trusted", "untrusted">>, <<"trusted", "revoked">>,
                        <<"revoked", "untrusted">> }

(* The revision of the event of a command: an import keeps the old one.    *)
RevisionAfter(row, cmd) == IF cmd.op = "import" THEN cmd.rev ELSE Revision(row) + 1

ProjectMoves(row, cmd) ==
  /\ (cmd.op \in {"create", "import"}) <=> (row = NoRow)
  /\ cmd.op = "set_trust" => TrustMoves(row.trust, cmd.trust)

(* Variant with a defect: an effect of unknown outcome may be started again. *)
EffectMovesRestartsUnknown(row, cmd) ==
  /\ (cmd.op = "authorize") <=> (row = NoRow)
  /\ cmd.op = "start" => row.phase \in {"authorized", "unknown"}
  /\ cmd.op \in {"finish", "mark_unknown"} => row.phase = "started"

EffectMoves(row, cmd) ==
  /\ (cmd.op = "authorize") <=> (row = NoRow)
  /\ cmd.op = "start" => row.phase = "authorized"
  /\ cmd.op \in {"finish", "mark_unknown"} => row.phase = "started"

ProjectValid(row) == row.rev > 0 /\ row.created <= row.updated /\ row.root \notin Malformed

EffectValid(row) ==
  /\ row.rev > 0
  /\ row.authorized <= row.updated
  /\ row.phase # "authorized" <=> row.started # NoTime
  /\ row.phase # "authorized" => row.authorized <= row.started
  /\ row.phase = "finished" <=> row.finished # NoTime
  /\ row.phase = "finished" => row.started <= row.finished
  /\ row.phase = "finished" <=> row.result # NoResult

Created(cmd, env, seq) ==
  [rev |-> 1, trust |-> "untrusted", root |-> cmd.root, settings |-> cmd.settings,
   created |-> env.at, updated |-> env.at, seq |-> seq]

Imported(cmd, env, seq) ==
  [rev |-> cmd.rev, trust |-> cmd.trust, root |-> cmd.root, settings |-> cmd.settings,
   created |-> cmd.created, updated |-> env.at, seq |-> seq]

Revised(row, trust, settings, at, seq) ==
  [rev |-> row.rev + 1, trust |-> trust, root |-> row.root, settings |-> settings,
   created |-> row.created, updated |-> at, seq |-> seq]

NextProject(row, env, seq) ==
  LET cmd == env.cmd
  IN  CASE cmd.op = "create" -> Created(cmd, env, seq)
        [] cmd.op = "import" -> Imported(cmd, env, seq)
        [] cmd.op = "set_trust" ->
             Revised(row, cmd.trust, row.settings, env.at, seq)
        [] cmd.op = "set" ->
             Revised(row, row.trust,
                     [row.settings EXCEPT ![cmd.setting] = cmd.value], env.at, seq)

Authorized(cmd, env, seq) ==
  [rev |-> 1, phase |-> "authorized", result |-> NoResult, approval |-> cmd.approval,
   authorized |-> env.at, started |-> NoTime, finished |-> NoTime,
   updated |-> env.at, seq |-> seq]

Advanced(row, phase, result, started, finished, at, seq) ==
  [rev |-> row.rev + 1, phase |-> phase, result |-> result,
   approval |-> row.approval, authorized |-> row.authorized,
   started |-> started, finished |-> finished, updated |-> at, seq |-> seq]

NextEffect(row, env, seq) ==
  LET cmd == env.cmd
  IN  CASE cmd.op = "authorize" -> Authorized(cmd, env, seq)
        [] cmd.op = "start" ->
             Advanced(row, "started", row.result, env.at, row.finished, env.at, seq)
        [] cmd.op = "finish" ->
             Advanced(row, "finished", cmd.result, row.started, env.at, env.at, seq)
        [] cmd.op = "mark_unknown" ->
             Advanced(row, "unknown", row.result, row.started, row.finished, env.at, seq)

-----------------------------------------------------------------------------
(* Transactions of `execute`: what they demand and what they write.        *)

(* Variants with a defect: no UNIQUE(repo_root); no ensure_revision.       *)
ProjectPermitsAnyRoot(d, env) ==
  LET row == d.projects[env.id]
  IN  /\ env.expected = Revision(row)
      /\ ProjectMoves(row, env.cmd)
      /\ ProjectValid(NextProject(row, env, 0))

ProjectPermitsAnyRevision(d, env) ==
  LET row == d.projects[env.id]
  IN  ProjectMoves(row, env.cmd) /\ ProjectValid(NextProject(row, env, 0))

ProjectPermits(d, env) ==
  LET row  == d.projects[env.id]
      next == NextProject(row, env, 0)
  IN  /\ env.expected = Revision(row)
      /\ ProjectMoves(row, env.cmd)
      /\ ProjectValid(next)
      /\ row = NoRow =>
           \A p \in Projects :
             d.projects[p] # NoRow => d.projects[p].root # next.root

EffectPermits(d, env) ==
  LET row == d.effects[env.id]
  IN  /\ env.expected = Revision(row)
      /\ EffectMoves(row, env.cmd)
      /\ EffectValid(NextEffect(row, env, 0))

Permits(d, env) ==
  IF env.id \in Projects THEN ProjectPermits(d, env) ELSE EffectPermits(d, env)

AuditClass(cmd) ==
  CASE cmd.op = "authorize"    -> "authorized"
    [] cmd.op = "start"        -> "started"
    [] cmd.op = "finish"       -> cmd.result
    [] cmd.op = "mark_unknown" -> "unknown"
    [] OTHER                   -> "succeeded"

(* Variant with a defect: what recovery writes is not audited.             *)
RecordedWithoutRecovery(d, env, rev) ==
  [events   |-> Append(d.events, [rev |-> rev, req |-> env]),
   receipts |-> [d.receipts EXCEPT ![env.cid] =
                   [req |-> env, rev |-> rev, seq |-> Len(d.events) + 1]],
   audit    |-> IF env.cid \in RecoveryIds THEN d.audit
                ELSE Append(d.audit, [cid |-> env.cid, class |-> AuditClass(env.cmd)])]

(* The event, the receipt and the audit record of a command.               *)
Recorded(d, env, rev) ==
  [events   |-> Append(d.events, [rev |-> rev, req |-> env]),
   receipts |-> [d.receipts EXCEPT ![env.cid] =
                   [req |-> env, rev |-> rev, seq |-> Len(d.events) + 1]],
   audit    |-> Append(d.audit, [cid |-> env.cid, class |-> AuditClass(env.cmd)])]

ExecuteProject(d, env) ==
  LET seq == Len(d.events) + 1
      row == NextProject(d.projects[env.id], env, seq)
      rec == Recorded(d, env, row.rev)
  IN  [events |-> rec.events, receipts |-> rec.receipts, audit |-> rec.audit,
       projects |-> [d.projects EXCEPT ![env.id] = row], projectCursor |-> seq,
       effects |-> d.effects, effectCursor |-> d.effectCursor]

ExecuteEffect(d, env) ==
  LET seq == Len(d.events) + 1
      row == NextEffect(d.effects[env.id], env, seq)
      rec == Recorded(d, env, row.rev)
  IN  [events |-> rec.events, receipts |-> rec.receipts, audit |-> rec.audit,
       projects |-> d.projects, projectCursor |-> d.projectCursor,
       effects |-> [d.effects EXCEPT ![env.id] = row], effectCursor |-> seq]

Committed(d, env) ==
  IF env.id \in Projects THEN ExecuteProject(d, env) ELSE ExecuteEffect(d, env)

(* What `execute` refuses of an envelope whatever the database holds.      *)
Acceptable(env) ==
  /\ env.cmd.op = "create" => env.cmd.root \notin Malformed
  /\ env.cmd.op # "mark_unknown"

(* Variant with a defect: the command is judged before its receipt is      *)
(* looked up.                                                              *)
OutcomeJudgedFirst(d, env) ==
  CASE ~Acceptable(env) -> "invalid_input"
    [] Acceptable(env) /\ ~Permits(d, env) -> "rejected"
    [] OTHER -> IF d.receipts[env.cid] = NoReceipt THEN "committed"
                ELSE IF d.receipts[env.cid].req = env THEN "replayed"
                ELSE "idempotency_conflict"

(* The outcome `execute` reports for an envelope, in the order it checks.  *)
Outcome(d, env) ==
  CASE ~Acceptable(env) -> "invalid_input"
    [] /\ Acceptable(env)
       /\ d.receipts[env.cid] # NoReceipt ->
         IF d.receipts[env.cid].req = env THEN "replayed"
                                          ELSE "idempotency_conflict"
    [] OTHER -> IF Permits(d, env) THEN "committed" ELSE "rejected"

-----------------------------------------------------------------------------
(* Replay: the rows the first n events of a log stand for.                 *)

EventsOf(ev, n, x) == {i \in 1..n : ev[i].req.id = x}

Latest(S)   == CHOOSE i \in S : \A j \in S : j <= i
Earliest(S) == CHOOSE i \in S : \A j \in S : i <= j

OfKind(ev, S, op) == {i \in S : ev[i].req.cmd.op = op}

SettingChanges(ev, S, s) ==
  {i \in OfKind(ev, S, "set") : ev[i].req.cmd.setting = s}

BirthTrust(cmd) == IF cmd.op = "import" THEN cmd.trust ELSE "untrusted"

TrustOf(ev, S) ==
  LET T == OfKind(ev, S, "set_trust")
  IN  IF T = {} THEN BirthTrust(ev[Earliest(S)].req.cmd) ELSE ev[Latest(T)].req.cmd.trust

SettingOf(ev, S, s) ==
  LET T == SettingChanges(ev, S, s)
  IN  IF T = {} THEN ev[Earliest(S)].req.cmd.settings[s]
                ELSE ev[Latest(T)].req.cmd.value

BirthTime(req) == IF req.cmd.op = "import" THEN req.cmd.created ELSE req.at

(* The row that the events at the positions S of a log make of a project.  *)
ProjectOf(ev, S) ==
  IF S = {} THEN NoRow
  ELSE [rev |-> ev[Latest(S)].rev, trust |-> TrustOf(ev, S),
        root |-> ev[Earliest(S)].req.cmd.root,
        settings |-> [s \in Settings |-> SettingOf(ev, S, s)],
        created |-> BirthTime(ev[Earliest(S)].req),
        updated |-> ev[Latest(S)].req.at, seq |-> Latest(S)]

ReplayProject(ev, n, p) == ProjectOf(ev, EventsOf(ev, n, p))

PhaseAfter(op) ==
  CASE op = "authorize"    -> "authorized"
    [] op = "start"        -> "started"
    [] op = "finish"       -> "finished"
    [] op = "mark_unknown" -> "unknown"

TimeOf(ev, S, op) ==
  LET T == OfKind(ev, S, op)
  IN  IF T = {} THEN NoTime ELSE ev[Latest(T)].req.at

ResultOf(ev, S) ==
  LET T == OfKind(ev, S, "finish")
  IN  IF T = {} THEN NoResult ELSE ev[Latest(T)].req.cmd.result

(* The row that the events at the positions S make of a side effect.       *)
EffectOf(ev, S) ==
  IF S = {} THEN NoRow
  ELSE [rev |-> ev[Latest(S)].rev,
        phase |-> PhaseAfter(ev[Latest(S)].req.cmd.op),
        result |-> ResultOf(ev, S),
        approval |-> ev[Earliest(S)].req.cmd.approval,
        authorized |-> ev[Earliest(S)].req.at,
        started |-> TimeOf(ev, S, "start"), finished |-> TimeOf(ev, S, "finish"),
        updated |-> ev[Latest(S)].req.at, seq |-> Latest(S)]

ReplayEffect(ev, n, a) == EffectOf(ev, EventsOf(ev, n, a))

ReplayProjects(ev, n) == [p \in Projects |-> ReplayProject(ev, n, p)]
ReplayEffects(ev, n)  == [a \in Actions |-> ReplayEffect(ev, n, a)]

LastSequence(ev, ids) ==
  LET S == {i \in 1..Len(ev) : ev[i].req.id \in ids}
  IN  IF S = {} THEN 0 ELSE Latest(S)

(* What replay_event demands of the i-th event before it applies it.       *)
EventApplies(ev, i) ==
  LET x   == ev[i].req.id
      cmd == ev[i].req.cmd
  IN  IF x \in Projects
      THEN LET row == ReplayProject(ev, i - 1, x)
           IN  /\ ev[i].rev = RevisionAfter(row, cmd)
               /\ ProjectMoves(row, cmd)
               /\ ProjectValid(ReplayProject(ev, i, x))
      ELSE LET row == ReplayEffect(ev, i - 1, x)
           IN  /\ ev[i].rev = Revision(row) + 1
               /\ EffectMoves(row, cmd)
               /\ EffectValid(ReplayEffect(ev, i, x))

ReplaySucceeds(d) == \A i \in 1..Len(d.events) : EventApplies(d.events, i)

(* Variant with a defect: a receipt is matched with its event by count and *)
(* revision, not by sequence number.                                       *)
LedgerVerifiesByCount(d) ==
  /\ \A i \in 1..Len(d.events) : d.receipts[d.events[i].req.cid] # NoReceipt
  /\ \A c \in CommandIds : d.receipts[c] # NoReceipt =>
       \E i \in 1..Len(d.events) :
         /\ {j \in 1..Len(d.events) : d.events[j].req.cid = c} = {i}
         /\ d.events[i] = [rev |-> d.receipts[c].rev, req |-> d.receipts[c].req]

(* foreign_key_check and verify_immutable_ledger: receipts and events      *)
(* describe each other.                                                    *)
LedgerVerifies(d) ==
  /\ \A i \in 1..Len(d.events) : d.receipts[d.events[i].req.cid] # NoReceipt
  /\ \A c \in CommandIds : d.receipts[c] # NoReceipt =>
       LET receipt == d.receipts[c]
       IN  /\ {i \in 1..Len(d.events) : d.events[i].req.cid = c} = {receipt.seq}
           /\ d.events[receipt.seq] = [rev |-> receipt.rev, req |-> receipt.req]

ProjectsCurrent(d) ==
  /\ d.projects = ReplayProjects(d.events, Len(d.events))
  /\ d.projectCursor = LastSequence(d.events, Projects)

EffectsCurrent(d) ==
  /\ d.effects = ReplayEffects(d.events, Len(d.events))
  /\ d.effectCursor = LastSequence(d.events, Actions)

ProjectionsCurrent(d) == ProjectsCurrent(d) /\ EffectsCurrent(d)

(* The rebuilt projects table satisfies UNIQUE(repo_root).                 *)
RootsDistinct(rows) ==
  \A p, q \in Projects :
    p # q /\ rows[p] # NoRow /\ rows[q] # NoRow => rows[p].root # rows[q].root

(* Variants with a defect: the audit table is rebuilt too; both cursors    *)
(* are set to the end of the log.                                          *)
RebuiltWithAudit(d) ==
  [events |-> d.events, receipts |-> d.receipts,
   audit |-> << [cid |-> "rebuild", class |-> "succeeded"] >>,
   projects |-> ReplayProjects(d.events, Len(d.events)),
   projectCursor |-> LastSequence(d.events, Projects),
   effects |-> ReplayEffects(d.events, Len(d.events)),
   effectCursor |-> LastSequence(d.events, Actions)]

RebuiltOneCursor(d) ==
  [events |-> d.events, receipts |-> d.receipts,
   audit |-> Append(d.audit, [cid |-> "rebuild", class |-> "succeeded"]),
   projects |-> ReplayProjects(d.events, Len(d.events)),
   projectCursor |-> Len(d.events),
   effects |-> ReplayEffects(d.events, Len(d.events)),
   effectCursor |-> Len(d.events)]

Rebuilt(d) ==
  [events |-> d.events, receipts |-> d.receipts,
   audit |-> Append(d.audit, [cid |-> "rebuild", class |-> "succeeded"]),
   projects |-> ReplayProjects(d.events, Len(d.events)),
   projectCursor |-> LastSequence(d.events, Projects),
   effects |-> ReplayEffects(d.events, Len(d.events)),
   effectCursor |-> LastSequence(d.events, Actions)]

-----------------------------------------------------------------------------
(* The host and its clients.                                               *)

EmptyDatabase ==
  [events |-> <<>>, receipts |-> [c \in CommandIds |-> NoReceipt],
   audit |-> <<>>,
   projects |-> [p \in Projects |-> NoRow], projectCursor |-> 0,
   effects |-> [a \in Actions |-> NoRow], effectCursor |-> 0]

ASSUME LegacyAssumption ==
  /\ Legacy \subseteq [Projects -> ProjectRow \cup {NoRow}]
  /\ \A rows \in Legacy : RootsDistinct(rows)

(* A database of version 1 has projects and no ledger; a new one has none. *)
Init ==
  /\ \E rows \in Legacy : db = [EmptyDatabase EXCEPT !.projects = rows]
  /\ mode = "unmigrated" /\ tx = NoTx

(* apply_migrations: one transaction creates the tables of the ledger and  *)
(* takes the projects over, each with an event, a receipt and an audit     *)
(* record of its own.                                                      *)
BeginUpgrade ==
  /\ mode \in {"unmigrated", "refused"}
  /\ tx' = [work |-> EmptyDatabase, now |-> NoTime]
  /\ mode' = "upgrading"
  /\ UNCHANGED db

ImportEnvelope(p) ==
  LET row == db.projects[p]
  IN  [cid |-> p, id |-> p, expected |-> 0, at |-> row.updated,
       cmd |-> [op |-> "import", root |-> row.root, settings |-> row.settings,
                trust |-> row.trust, rev |-> row.rev, created |-> row.created]]

ImportProject(p) ==
  /\ mode = "upgrading"
  /\ db.projects[p] # NoRow
  /\ tx.work.projects[p] = NoRow
  /\ tx' = [work |-> ExecuteProject(tx.work, ImportEnvelope(p)), now |-> tx.now]
  /\ UNCHANGED <<db, mode>>

AllImported == \A p \in Projects : db.projects[p] # NoRow => tx.work.projects[p] # NoRow

(* validate_imported_projects                                              *)
ImportsValid(d) == \A p \in Projects : d.projects[p] # NoRow => ProjectValid(d.projects[p])

(* Variant with a defect: the projects are taken over unseen.              *)
CommitUpgradeUnchecked ==
  /\ mode = "upgrading"
  /\ AllImported
  /\ db' = tx.work /\ mode' = "opening"
  /\ tx' = NoTx

CommitUpgrade ==
  /\ mode = "upgrading"
  /\ AllImported
  /\ IF ImportsValid(tx.work) THEN db' = tx.work /\ mode' = "opening"
                              ELSE mode' = "refused" /\ UNCHANGED db
  /\ tx' = NoTx

(* Store::open takes both locks and finds the schema up to date.           *)
StartOpen ==
  /\ mode \in {"closed", "failed"}
  /\ mode' = "opening"
  /\ UNCHANGED <<db, tx>>

(* verify_internal(repair = true): an error if the ledger does not verify   *)
(* or does not replay; otherwise rows that differ are rebuilt in one        *)
(* transaction, which fails if the rebuilt rows repeat a repository root.   *)
VerificationPasses(d) ==
  /\ LedgerVerifies(d)
  /\ ReplaySucceeds(d)
  /\ ProjectionsCurrent(d) \/ RootsDistinct(ReplayProjects(d.events, Len(d.events)))

VerifyAndRepair ==
  /\ mode = "opening"
  /\ mode' = IF VerificationPasses(db) THEN "verified" ELSE "failed"
  /\ db' = IF VerificationPasses(db) /\ ~ProjectionsCurrent(db)
           THEN Rebuilt(db) ELSE db
  /\ UNCHANGED tx

(* recover_started_side_effects: one transaction marks every started side  *)
(* effect unknown, all at the timestamp read when it began.                *)
BeginRecovery ==
  /\ mode = "verified"
  /\ \E now \in Clock : tx' = [work |-> db, now |-> now]
  /\ mode' = "recovering"
  /\ UNCHANGED db

(* Variant with a defect: only the effect of the latest event is examined. *)
StartedLast(d) ==
  {a \in Actions : /\ d.effects[a] # NoRow /\ d.effects[a].phase = "started"
                   /\ d.effects[a].seq = d.effectCursor}

Started(d) == {a \in Actions : d.effects[a] # NoRow /\ d.effects[a].phase = "started"}

RecoveryEnvelope(a, cid) ==
  [cid |-> cid, id |-> a, expected |-> tx.work.effects[a].rev,
   at |-> tx.now, cmd |-> [op |-> "mark_unknown"]]

RecoverEffect(a) ==
  /\ mode = "recovering"
  /\ a \in Started(tx.work)
  /\ \E cid \in RecoveryIds :
       /\ tx.work.receipts[cid] = NoReceipt
       /\ IF EffectPermits(tx.work, RecoveryEnvelope(a, cid))
          THEN /\ tx' = [work |-> ExecuteEffect(tx.work, RecoveryEnvelope(a, cid)),
                         now |-> tx.now]
               /\ mode' = mode
          ELSE tx' = NoTx /\ mode' = "failed"
  /\ UNCHANGED db

CommitRecovery ==
  /\ mode = "recovering"
  /\ Started(tx.work) = {}
  /\ db' = tx.work
  /\ mode' = "open"
  /\ tx' = NoTx

(* Store::execute: the mutex and the immediate transaction make it atomic. *)
Execute(env) ==
  /\ mode = "open"
  /\ IF Outcome(db, env) = "committed" THEN db' = Committed(db, env)
                                       ELSE UNCHANGED db
  /\ UNCHANGED <<mode, tx>>

Closed == IF mode = "upgrading" THEN "unmigrated" ELSE "closed"

(* Variant with a defect: the interrupted transaction survives.            *)
CrashKeepsTransaction ==
  /\ mode \notin {"closed", "unmigrated", "refused", "failed"}
  /\ mode' = Closed
  /\ UNCHANGED <<db, tx>>

(* The host exits or dies at any point; an uncommitted transaction is lost.*)
Crash ==
  /\ mode \notin {"closed", "unmigrated", "refused", "failed"}
  /\ mode' = Closed
  /\ tx' = NoTx
  /\ UNCHANGED db

(* Outside damage while the store is closed, as the tests inflict it: rows *)
(* or cursors put back to an earlier state, and a field overwritten.       *)
WithProjections(d, projects, effects, effectCursor) ==
  [events |-> d.events, receipts |-> d.receipts, audit |-> d.audit,
   projects |-> projects, projectCursor |-> d.projectCursor,
   effects |-> effects, effectCursor |-> effectCursor]

StaleProjections(d) ==
  LET Lengths == 0..Len(d.events)
  IN  { WithProjections(d, ReplayProjects(d.events, n), d.effects, d.effectCursor)
          : n \in Lengths }
        \cup
      { WithProjections(d, d.projects, ReplayEffects(d.events, n), n) : n \in Lengths }

Overwritten(d, p, f) ==
  [d.projects EXCEPT ![p] = [rev |-> @.rev, trust |-> @.trust, root |-> @.root,
                             settings |-> f, created |-> @.created,
                             updated |-> @.updated, seq |-> @.seq]]

OverwrittenFields(d) ==
  { WithProjections(d, Overwritten(d, p, f), d.effects, d.effectCursor)
      : p \in {q \in Projects : d.projects[q] # NoRow}, f \in [Settings -> Values] }

Damage ==
  /\ mode = "closed"
  /\ Len(db.audit) - Len(db.events) < MaxRebuilds
  /\ db' \in StaleProjections(db) \cup OverwrittenFields(db)
  /\ UNCHANGED <<mode, tx>>

Next ==
  \/ BeginUpgrade
  \/ \E p \in Projects : ImportProject(p)
  \/ CommitUpgrade
  \/ StartOpen
  \/ VerifyAndRepair
  \/ BeginRecovery
  \/ \E a \in Actions : RecoverEffect(a)
  \/ CommitRecovery
  \/ \E env \in ClientEnvelopes : Execute(env)
  \/ Crash
  \/ Damage

Spec == Init /\ [][Next]_vars

-----------------------------------------------------------------------------
(* Properties.                                                             *)

(* Every table holds rows of its shape, and a working copy exists exactly  *)
(* while a transaction upgrades or recovers.                               *)
TypeOK ==
  /\ db \in Database
  /\ mode \in Modes
  /\ mode \in {"upgrading", "recovering"} => tx.work \in Database
  /\ mode = "recovering" => tx.now \in Clock
  /\ mode \notin {"upgrading", "recovering"} => tx = NoTx

(* Whatever clients sent and whenever the host died, the next startup      *)
(* accepts the ledger: receipts and events match, every event replays, and *)
(* a rebuild of the projects table cannot trip over a repeated root        *)
(* (verify_immutable_ledger, replay_derived_state, repair in store.rs).    *)
StartupAcceptsLedger ==
  /\ LedgerVerifies(db)
  /\ ReplaySucceeds(db)
  /\ RootsDistinct(ReplayProjects(db.events, Len(db.events)))

SameButSequence(row, other) == [row EXCEPT !.seq = 0] = [other EXCEPT !.seq = 0]

(* From the moment verify_and_repair returns until the host stops, the     *)
(* incrementally maintained rows and cursors are those a replay of the     *)
(* whole log yields, in the committed database and in the working copy:    *)
(* `Store::verify` never reports a difference.  An upgrade whose projects  *)
(* pass leaves nothing to repair either, and loses nothing: the events it  *)
(* writes replay to the projects of version 1, with revision and trust.    *)
ProjectionsMatchReplay ==
  /\ mode \in {"verified", "recovering", "open"} => ProjectionsCurrent(db)
  /\ mode = "recovering" => ProjectionsCurrent(tx.work)
  /\ mode = "upgrading" /\ ImportsValid(tx.work) =>
       /\ ProjectionsCurrent(tx.work)
       /\ \A p \in Projects : tx.work.projects[p] # NoRow =>
            SameButSequence(tx.work.projects[p], db.projects[p])

(* The expected revision is a token that is spent once: of the commands    *)
(* sent to an aggregate with one expected revision at most one ever        *)
(* commits, and commits follow each other in revision order.               *)
OneWinnerPerRevision ==
  \A i, j \in 1..Len(db.events) :
    i < j /\ db.events[i].req.id = db.events[j].req.id =>
      /\ db.events[i].req.expected < db.events[j].req.expected
      /\ db.events[j].rev = db.events[j].req.expected + 1

(* Every committed event, recovered ones included, has exactly one audit   *)
(* record, and every audit record of a command has its event.              *)
AuditComplete ==
  LET Records(c) == {k \in 1..Len(db.audit) : db.audit[k].cid = c}
  IN  /\ \A i \in 1..Len(db.events) : \E k \in 1..Len(db.audit) :
           /\ Records(db.events[i].req.cid) = {k}
           /\ db.audit[k].class = AuditClass(db.events[i].req.cmd)
      /\ \A c \in CommandIds :
           Records(c) # {} => db.receipts[c] # NoReceipt

(* A client that lost a reply may send its envelope again at any later     *)
(* time, whatever has happened to the aggregate since, and is answered     *)
(* with the receipt of the one event its command produced.                 *)
RetryIsReplayed ==
  mode = "open" =>
    \A i \in 1..Len(db.events) :
      LET env == db.events[i].req
      IN  env.cid \in Commands =>
            /\ Outcome(db, env) = "replayed"
            /\ db.receipts[env.cid].seq = i

(* Events and audit records are only ever appended and receipts never      *)
(* change, across commits, repairs, recoveries and crashes.                *)
LedgerIsAppendOnly ==
  [][ /\ SubSeq(db'.events, 1, Len(db.events)) = db.events
      /\ SubSeq(db'.audit, 1, Len(db.audit)) = db.audit
      /\ \A c \in CommandIds : db.receipts[c] # NoReceipt =>
                                  db'.receipts[c] = db.receipts[c] ]_vars

(* The side effects of the ledger behave as EffectLedger promises: one     *)
(* phase after the other, started once, and interrupted all together.      *)
LedgerPhase(ev, a) ==
  LET S == EventsOf(ev, Len(ev), a)
  IN  IF S = {} THEN "none" ELSE PhaseAfter(ev[Latest(S)].req.cmd.op)

Ledger == INSTANCE EffectLedger
            WITH phase <- [a \in Actions |-> LedgerPhase(db.events, a)]

ImplementsEffectLedger == Ledger!Spec

(* The projects of the ledger, and the changes that clients made to them,  *)
(* behave as ProjectLedger promises: one change for each revision, none of *)
(* them twice, no root twice, and no way from revoked straight to trusted. *)
Shown(row) ==
  IF row = NoRow THEN [rev |-> 0]
  ELSE [rev |-> row.rev, root |-> row.root, trust |-> row.trust, settings |-> row.settings]

ChangesIn(ev) ==
  {[cid |-> ev[i].req.cid, id |-> ev[i].req.id, expected |-> ev[i].req.expected] :
     i \in {j \in 1..Len(ev) : ev[j].req.id \in Projects /\ ev[j].req.cid \in Commands}}

(* What is known of the project that the events at the positions S are of. *)
Known(ev, S) ==
  IF S = {} THEN [rev |-> 0]
  ELSE [rev |-> ev[Latest(S)].rev, root |-> ev[Earliest(S)].req.cmd.root,
        trust |-> TrustOf(ev, S), settings |-> [s \in Settings |-> SettingOf(ev, S, s)]]

Register == INSTANCE ProjectLedger
              WITH project <- [p \in Projects |->
                                 Known(db.events, EventsOf(db.events, Len(db.events), p))],
                   done <- ChangesIn(db.events),
                   Old <- {[p \in Projects |-> Shown(rows[p])] : rows \in Legacy}

ImplementsProjectLedger == Register!Spec

(* Liveness: a host that is down is restarted, and sooner or later a       *)
(* startup is not killed half way.                                         *)
Fairness ==
  /\ WF_vars(StartOpen) /\ WF_vars(VerifyAndRepair) /\ WF_vars(BeginRecovery)
  /\ WF_vars(CommitRecovery)
  /\ \A a \in Actions : WF_vars(RecoverEffect(a))
  /\ <>[][Crash => mode = "open"]_vars

FairSpec == Spec /\ Fairness

(* A side effect whose host went down between Start and Finish is          *)
(* eventually recorded as unknown (recover_started_side_effects).          *)
InterruptedBecomesUnknown ==
  \A a \in Actions :
    (mode = "closed" /\ LedgerPhase(db.events, a) = "started")
      ~> LedgerPhase(db.events, a) = "unknown"

(* The startup checks notice a ledger that was altered behind their back:  *)
(* a receipt removed, exchanged, or with another revision or sequence, or  *)
(* an event with another revision (test receipt_metadata_corruption_...).  *)
AlteredReceipts(d, c) ==
  (   {NoReceipt}
    \cup {[d.receipts[c] EXCEPT !.rev = n] : n \in 1..(MaxRevision + 1)}
    \cup {[d.receipts[c] EXCEPT !.seq = n] : n \in 1..(Len(d.events) + 1)}
    \cup {d.receipts[e] : e \in CommandIds} ) \ {d.receipts[c]}

LedgerDamageIsDetected ==
  /\ \A c \in CommandIds : db.receipts[c] # NoReceipt =>
       \A receipt \in AlteredReceipts(db, c) :
         ~LedgerVerifies([db EXCEPT !.receipts = [@ EXCEPT ![c] = receipt]])
  /\ \A i \in 1..Len(db.events) : \A n \in 1..(MaxRevision + 1) :
       n # db.events[i].rev =>
         ~LedgerVerifies([db EXCEPT !.events = [@ EXCEPT ![i].rev = n]])

(* Startup never fails.  README.md of the crate promises that projections  *)
(* are repaired from valid events and interrupted actions are converted.   *)
OpenNeverFails == mode \notin {"failed", "refused"}
=============================================================================
