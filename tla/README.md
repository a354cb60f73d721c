# Vea, specified

TLA+ specifications of Vea: what its components keep, what each operation does
to it, which properties make the components correct, which of these TLC checks
on small instances and which TLAPS proves for all. The source is the reference;
every definition that stands for code is listed with its lines in
`PROJECT.json` under `map`.

## The system

Vea is a local desktop application that lets agents work on the user's
repositories. A trusted host process (Rust) owns all durable state; an agent
service (TypeScript) plans and schedules the work; a desktop shell shows it.

| Component | Source | State it keeps | Operations |
|---|---|---|---|
| Durable store | `crates/vea-store` | one SQLite database: event log, command receipts, audit records, `projects` and `side_effects` with one cursor each | `open` (lock, migrate, verify and repair, recover), `execute`, `verify`, readers |
| Backup and restore | `store.rs` 246-387 | the database file, a temporary and a rollback file | `backup`, `restore` |
| Migrations | `migrations.rs`, `migrations/*.sql` | `schema_migrations`, pre-upgrade copies | `apply_migrations`, import of version-1 projects |
| Policy | `crates/vea-policy` | none: decisions over an action, a context and an approval | `validate`, `evaluate_action`, `approve`, `verify_approval` |
| Canonical encoding | `canonical.rs` | none | digests of actions, policies and approvals |
| Scheduler | `packages/scheduler` | the cursor and the credits handed back to the caller | `schedule`, `writeScopesConflict` |
| Routing | `packages/routing` | none | `routeTask` |
| Domain | `packages/domain` | none | `validateTaskGraph`, the table of task transitions |
| Agent service | `packages/protocol`, `apps/agent-service` | decode buffer and its limit, handshake flag, limit of the session | `FrameDecoder.push`, `handle` |
| Configuration, extensions | `packages/config`, `packages/extensions` | none | schema validation |
| Desktop shell | `apps/desktop` | demonstration data | presentation |

How they interact: clients hand complete command envelopes (a command identifier,
an aggregate, the revision they expect, a timestamp, a command) to
`Store::execute`. Each committed command writes one event, one receipt, one
audit record, one projection row and one cursor in one transaction. Nothing else
writes these tables, except `Store::open`, which rebuilds projections that differ
from a replay of the log and turns side effects that were started when the host
went down into unknowns. The policy crate decides whether an action may be
authorized; the store records the authorization with the approval it refers to.
The scheduler is called with a snapshot of tasks and limits and returns which
tasks to start; the agent service talks to the host over length-prefixed frames.

What is hard in this system: a host that dies between any two steps, and again
while it recovers; clients that retry after a lost reply, reuse an identifier or
act on a revision that is out of date; timestamps chosen by clients and by a
clock that may run backwards; two ways of computing the same rows (incrementally
in `execute`, wholly in replay) that must never part; projections damaged behind
the store's back; file operations of a restore or an upgrade that fail half way, and builds of the
program that are replaced in between; an approval that is used long after it was
given, when everything it was given for may have changed; frames that arrive in
pieces or many at a time, across the moment at which the limits change. `hazards` in
`PROJECT.json` lists them at their lines.

## Modules

### VeaStore: the durable store

A database is a value, a record of tables, and a transaction is an operator from
databases to databases. SQLite's atomicity is then the whole of an action: what a
transaction commits is its full result, what it rolls back is nothing. The state
is `db` (the committed database), `mode` (how far the host is in `Store::open`)
and `tx`, the working copy and the timestamp of the two transactions in which the
model keeps several steps apart: the upgrade and the recovery. Until the upgrade is
committed (`unmigrated`, `upgrading`, `refused`), `db` is a database of version 1, which has
projects and no ledger, or a new one, which has neither. `Store::open` returns an error in two
places of this model: a recovery fails (`failed`), or an upgrade finds an old project
that is not valid (`refused`). The host is then down and may start again.

| Code | Model |
|---|---|
| `domain_events` | `db.events`, a sequence: the position is the global sequence number, `req` is the envelope that the event's columns copy |
| `command_receipts` | `db.receipts`, a function of command identifiers |
| `audit_events` | `db.audit`, the command identifier and the result class of each record |
| `projects`, `side_effects`, `projection_state` | `db.projects`, `db.effects`, `db.projectCursor`, `db.effectCursor` |
| `apply_migrations`, migration 2 in `0002_events_audit.sql` | `BeginUpgrade`, one `ImportProject(p)` per row, `CommitUpgrade` |
| `validate_imported_projects` | `ImportsValid` |
| `Store::open`: locks, with a schema that is up to date | `StartOpen` |
| `verify_internal(repair = true)` | `VerifyAndRepair` |
| `recover_started_side_effects` | `BeginRecovery`, one `RecoverEffect` per effect, `CommitRecovery` |
| `Store::execute` | `Execute(env)`, with every outcome it can report (`Outcome`) |
| `CommandEnvelope::validate` and the refusal of `mark_unknown`, before anything is looked up | `Acceptable` |
| `build_mutation`, `Project::validate`, `SideEffect::validate`, `ensure_revision` | `NextProject`, `NextEffect`, `ProjectMoves`, `EffectMoves`, `ProjectValid`, `EffectValid`, `ProjectPermits`, `EffectPermits` |
| `replay_event`, `replay_derived_state` | `ProjectOf`, `EffectOf`, `ReplayProjects`, `ReplayEffects`, `EventApplies`, `LastSequence` |
| `verify_immutable_ledger`, `foreign_key_check` | `LedgerVerifies` |
| the process exits or dies | `Crash`, possible in every mode |
| rows and cursors changed outside the store, as the tests do | `Damage` |

Replay is written declaratively, not as the loop of the code: the trust of a
project is what the last trust event says, a start time is that of the start
event, and so on. Execution is written command by command as the code does it.
That the two agree is therefore a statement with content, and the central lemma
of the proofs.

Abstractions. The request digest covers every field, so an envelope stands for
its digest. Display name, weight and policy are fields that a `set` command
overwrites (`Settings`, `Values`); fields that no command changes and no check
reads are left out. Aggregate identifiers carry their type (`Projects` and
`Actions` are disjoint). Recovery draws its command identifiers from
`RecoveryIds`, which are never a client's: they are fresh UUIDs. When every one of
them is used the model's recovery waits; the runs have one for every effect, and
an effect is recovered at most once. Timestamps are numbers, `NoTime` is NULL.
What `Project::validate` refuses in a project, other than times and revision, is the
roots in `Malformed`.

Migration 2 takes every project over with an event of its own, whose command
identifier and event identifier are the project's; so `CommandIds` contains
`Projects`. The event keeps the revision that the project had (`RevisionAfter`), its
trust and its times, and replay starts from them. The statement writes the events,
then the receipts, then the audit records of all projects in an order SQL leaves
open; the model takes one project after the other, in any order. `Legacy` holds the
tables of projects an old database may have: of the right types and with distinct
roots, which the old schema enforced, and not necessarily valid today.

### EffectLedger: what the store promises about side effects

A side effect is authorized, started and finished, each once and in this order;
an interruption turns all started effects into unknowns in one step; nothing ever
leaves finished or unknown. `ImplementsEffectLedger` states that `VeaStore`
implements this through the phases its log stands for (`LedgerPhase`).

### ProjectLedger: what the store promises about projects

A project is a register with a revision. A change spends a command that was not used
before and the revision it found (`Spend`), and makes what is known of one project
something else (`Becomes`): a project is created with a root that no other has, its trust
moves to any other but from revoked straight to trusted, a field is set. Before all
changes the projects of an older version may be adopted, all in one step. `ImplementsProjectLedger`
states that `VeaStore` implements this through the projects that its log stands for (`Known`) and
the client commands in it (`ChangesIn`). `expected` in the mapped change is what the client
sent, in the abstract one the revision that the project has: that they are equal is what
makes a stale command harmless, also one that would trust a project revoked since.

### StoreFiles: backup, restore and schema upgrades

The database as files: the database file, its WAL and its shared memory (`main`),
the same under the rollback name (`aside`), the temporary copy, the backup, the
copy made before an upgrade (`preUpgrade`). A file holds a version of the data in a
schema, and a database file may be `behind` its WAL. The schema of the build in
use is `program`; between two runs of the host a newer or an older build may be
installed. One action per file operation of `Store::open`, `Store::backup` and
`Store::restore`, in the code's order and with its error paths; the operations
named in `Failable` may fail, and `Crash` may follow any of them. What SQLite does
with the files is modelled from how the code uses it: it checkpoints on a clean
close and leaves database and WAL behind when the host dies; it discards a WAL
that has no database.

| Code | Model |
|---|---|
| `Store::open`: connection, history check | `OpenStore`, `CheckSchema` |
| `backup_database` before an upgrade | `CreatePreUpgrade`, `CopyPreUpgrade` |
| the migration transaction; verification and recovery | `Migrate`; `FinishOpen` |
| `backup`: copy, link, sync | `StartBackup`, `CopyBackup`, `LinkBackup`, `SyncBackup` |
| `restore`: checks and copy of the source, `Store::open` on the copy | `StartRestore`, `CopySource`, `ValidateCopy` |
| the four renames | `MoveAside(part)`, `InstallCopy` |
| permissions, directory sync, check of what is installed | `CheckInstalled` |
| the error path and `rollback_restore` | `RemoveInstalled`, `MoveBack(part)` |
| removal of the rollback files; the last sync | `RemoveAside(part)`; `SyncRemoved` |

Files that a crash leaves under fresh names (UUIDs) are never looked at again and
are dropped from the model, except for the last pre-upgrade copy, which `Others`
may put at the backup path as a user would who goes back to an older build. The
locks of the store keep all other operations out, so there is one at a time;
`Others` stands for programs that use the backup path. The read-only check of the
installed database is taken to leave no files.

`restore` returns success or an error; `result` tells apart what an error may mean.
`failed` is an error before the replacement, after which the old database is back.
`rollback_failed` says that the rollback could not be completed (`store.rs:375-378`): there is
no database, and the old one is at the rollback path. `cleanup_failed` is an error over a
store that has been replaced: the removal of a rollback file or the last sync failed
(`store.rs:382-386`), and what is still aside is the old database with its WAL, or files that
no database belongs to. To the caller `failed` and `cleanup_failed` may be the same I/O error.
A caller must not conclude from an error that nothing has changed; nothing the repository
says promises it either. `RestoreResultHolds` has a clause for each.

Two things the model shows that no property forbids, because nothing is said of
them. A host that dies between the first rename of a restore and the installation
finds no database at the next start and creates an empty one, while the old one
stays under its rollback name; if it dies before the second rename, that start also
discards the WAL that the old database left behind, and the database at the
rollback path has lost its last transactions. And a copy before an upgrade that fails leaves an
incomplete `.bak` file where it was being made.

### WriteScopes: may two tasks write the same file?

`scopePrefix` and `writeScopesConflict`. A scope is a sequence of segments, each a
literal or a literal followed by a wildcard (`src`, `src*`, `*`, `**`); `?` and
`[` end the prefix as `*` does and are not told apart from it. The prefix is a
sequence of names; a literal cut off by a wildcard becomes a name, as it does in
the code, and a wildcard at the very start leaves the empty prefix. The nested
loops return at the first pair that is unknown or meets; `Conflict` says so with
the order of pairs (`Before`). Slashes, `./` and backslashes are taken to be
normalised.

`ScopeOverlap` adds the reference and the hosts of the lists: which files a glob names
(`Files`; a path is cut into one part for each segment, see `Cuts`), and two lists to
which scopes are added one by one. `MCWriteScopes` has the constants for TLC.

### Scheduler: which tasks to start

`schedule` is a pure function of a snapshot; its loop is written as a step per
visit of a project, inside a host that calls it again and again. Between two calls
tasks become ready with or without a route and trust changes; runs end at any
moment, also during a call, which then works on an old snapshot.

| Code | Model |
|---|---|
| `snapshot.readyTasks`, `activeRuns`, `routeByTask`, trusted projects | `ready`, `active`, `route`, `trusted` |
| `deficits`, `cursorProjectId`, handed from call to call | `deficits`, `cursor` |
| counting of runs, sorting, the filter before the loop | `Snapshot`, `Verdict` |
| one turn of the `while` | `SkipEmpty`, `SkipFull`, `SaveUp`, `Reject`, `Select`, by its outcome |
| `canContinueCurrentVisit` | `StaysAt` |
| the loop after the loop, and the return | `Return` |
| what the host does with the decision | `Start` |

Abstractions. A project is its position in the order of identifiers, a task has a
`Rank` in place of priority, time and identifier. Adapters and accounts are
limited alike and are both `Lanes`; a route is the set of its lanes. Weights,
costs and deficits are counted in tenths, because weights are clipped at 0.1. The
check for a missing route inside the loop (`index.ts:202-207`) cannot fail, since
the filter has passed the task with its route; it has no counterpart. Limits and
the set of projects do not change.

### Policy: proposals, approvals and their use

`evaluate_action`, `approve` and `verify_approval` are functions; `Policy` gives
them a host that calls them and a world that changes between the calls.

| Code | Model |
|---|---|
| `ActionProposal::validate_shape`, `CapabilityScope::validate`, `ActionOperation::validate`, `EffectivePolicy::validate`, `ExecutionState::validate_for` | `ValidAction`, `ValidScope`, `ValidOperation`, `ValidPolicy`, `ValidState` |
| `CapabilityScope::matches_action`, `authorizes` | `Covers`, `Authorizes` |
| the digests of action, policy and binding | `Digest`, `BindingDigest` |
| `evaluate_action` | `Permitted`, `Evaluate`, `Requirement`; its callers `Request`, `Allow` |
| `approve`, the denial | `MayApprove`, `GrantOf`; `Approve`, `Deny` |
| consumption and revocation, left to the host | `Retire` |
| `verify_approval` | `InWindow`, `Answers`, `VerifyApproval`; its caller `Authorize` |
| the agent, the administrator, the brokers, the clock | `Propose`, `ChangePolicy`, `Drift`, `SetClock` |

Abstractions. A digest is an injective function of domain and value. The syntax of
identifiers, paths, references and destinations, sizes and the schema version are
one flag, `wellFormed`; a scope is a place and targets in it, and what a scope does
not name is `content`. Checks whose order only decides which denial is reported
are one conjunction. Each step records what it performed (`performed`); the
properties speak of that record.

An approval is good again when a policy that was changed is changed back, since it
is bound to digests and not to moments. That is what the code does and what
`ApprovedAsSeen` allows.

### AgentProtocol and AgentSession: the framed protocol

`AgentProtocol` is what a peer may count on: requests are answered in order, and
what an answer says, and the limits for request and answer, depend on the requests
before it alone. `AgentSession` is the code: chunks of any size, a decoder that
takes a chunk as a whole with the limit in force when it arrives, a loop that
serves the decoded frames and raises the limit in the midst of them.

| Code | Model |
|---|---|
| bytes in the pipe | `sent`, of which `complete` frames and perhaps a `header` have arrived |
| `FrameDecoder.push`; when it throws | `Decode`; `Reject` |
| `AgentServiceSession.handle` | `Answer`, `LimitAfter`, `Throws` |
| one turn of the loop in the data handler | `Serve` |

A frame is its kind, its size, what its handshake asks for, whether it is valid
JSON of the right form, and the size of the answer it gets, which repeats parts of
it. `Conforms` says what a peer may send: small frames until it has read
`handshake.ok`, and nothing whose answer is longer than the limit. The second half is the
model's: `main.ts:4` says nothing of answers, but an answer that is too long ends the session,
and a peer whose requests ask for one cannot be promised that it is served.

Three things to know that the model makes plain: before a handshake the service
may send answers longer than 1024 bytes itself (its session starts with the limit
of 1 MiB; only the decoder starts with the small one), although `main.ts:4` speaks
of either peer; an answer to a handshake that is longer than the limit just
agreed on ends the session; and so does a handshake without a payload.

### TaskGraph and Routing: planning

`TaskGraph` is `validateTaskGraph`: one pass over nodes and entries (`Faulty`), then
the loop that takes the least task without an open edge (`Take`) until none is
left (`Conclude`). Edges are entries, so that a dependency that is repeated counts
as often as it is listed, as in the code. Identifiers are numbers in the order of
the strings, 0 is the empty one; a task with the empty identifier ends the loop,
because `queue.shift()` then returns a value that is false, and its graph is
reported as a cycle as well.

`Routing` is `routeTask` as a function. What rules a candidate out for good (health,
review, capabilities) is one flag, `fit`; what the score adds up besides quota and
budget is one number. With `allowEffortDowngrade` a candidate that lowers the
effort may win over one that supports the requested effort, if its score is higher. Its
specification is a host that adds candidates with different identifiers one by one; the
property compares the routes of all tasks under all policies.

`MCPlanning` puts both and `ScopeOverlap` into one specification whose behaviours
take up one function each.

## Runs

Every run of the store has a host that may die in every step, clients that may
send every well-formed envelope at every moment, and damage to the closed
database (except `store_recovery`, where none occurs). Identifiers of commands are
symmetric, in `store_mixed` projects and valid roots too: no definition tells two of
them apart. The runs with liveness properties use no symmetry.

| Run | Question | Bounds |
|---|---|---|
| `store_mixed` | Does the ledger always verify, do rows and cursors equal its replay, is each expected revision spent once, is everything audited, is a retry answered, is the log append-only, do projects keep the promise of `ProjectLedger`, and does no alteration of the ledger escape the startup checks? | two projects, both new or one taken over from version 1 at revision 2; two good roots and a malformed one; one field with two values; one effect; three client commands, one recovery identifier; clients at time 2, old projects created at 1 or 3 and updated at 3, a host clock at 1 or 2; expected revisions up to 3; one rebuild |
| `store_recovery` | Does every interrupted effect become unknown, and do side effects keep the promise of `EffectLedger`? | two effects, four client commands, two recovery identifiers, one time, expected revisions up to 3, fairness below |
| `store_clock` | Does `Store::open` always succeed? (violated) | the same with times 1 and 2, expected revisions up to 2 and a host clock that stands at 1 |
| `store_files` | Is a store after a restore what the restore's result says, success or which error, does a restore keep what it found until it has succeeded, and never leave a database with the wrong WAL, wherever it fails or dies? Does a backup replace nothing, and is nothing upgraded without a complete copy, or opened by a build that does not know its schema? | versions up to 2, builds for schemas up to 3, every file operation may fail but two |
| `store_rollback_copy` | Is the rollback copy kept if the first rename fails? (violated) | versions and schemas up to 1, only the first rename may fail |
| `scopes_overlap` | Are scopes judged disjoint only if no path matches both? (violated) | two names of which one begins the other, scopes of up to two segments, lists of up to two scopes |
| `planning` | Does a task graph pass exactly if it is sound, and can its order be run? In conservative mode, are scopes judged disjoint only if no path matches both, when wildcards start a segment below a literal one, and is the test symmetric? Does an expired quota make no difference to a route? | three tasks with two dependencies each, four with one, two with repeated, empty or missing identifiers; the scopes of `scopes_overlap`, up to three in both lists; two candidates with every combination of estimate, efforts and quota |
| `scheduler_limits` | Are limits and conflicts respected, is every ready task answered, and is no capacity left unused, while runs end and trust and routes change? | two projects, four tasks of every cost, three slots, a lane with a limit of one, overlapping and unknown scopes |
| `scheduler_turns` | Is every project with work served, whatever the weights? | one slot, weights 1000:1 (100 to 0.1), two tasks beside one, equal costs |
| `scheduler_starvation` | The same with tasks of different cost (violated) | one slot, weights 1:1, low and medium tasks |
| `policy` | Does an approval let through exactly what the user saw, in its window and within a grant, and for all of that window? Does nothing but a read pass without one? | eight proposals, four of them at fault, three policies, four broker states, a clock from 0 to 4, one request and one approval |
| `agent_session` | Is every sequence of frames answered as if they had come one by one, however it is cut into chunks? Is a peer that keeps to the protocol never cut off and always answered? | four frames, sizes in steps of 1 KiB, a limit of 3 KiB in place of 1 MiB |

Why the bounds are enough. In the store, three commands create two projects
and change one, or carry an effect through its life, and one project may be there
before; that is what a conflict over roots, a stale rebuild and cursors that must stay apart
need. Clients at 2 and a project updated at 3 are out of order, a creation at 3 makes
every later change invalid, and a clock at 1 is behind the effects that clients
authorize. `MaxRevision` is 3, so that a late `Finish` and a second `Start` of an effect
that recovery marked unknown (revision 3) are sent. `store_recovery` has two effects
that can both be `started`, so that one recovery transaction converts two and a
crash can fall between the two. Sequence numbers are bounded by the number of command
identifiers, and `MaxRebuilds` bounds how often the audit table records a rebuild.
Three versions of the data (`MaxVersion` is 2) tell apart the backup, the
database that the restore finds and a WAL that is newer than both; three schemas
are an old, a current and a new build.

For the scheduler, three tasks of one project make one reject the next two of the
same call, the fourth makes a second project save up for 30 visits; one slot and
two projects are the least in which one can keep the other out. A path is one
segment longer than a scope, so that `**` can stand for none and for more than one.
The loop gives up after 64 visits for each project (`MaxVisits`); a selection resets
the count and a rejection adds to it, so that a long series of rejected tasks can end
a call with slots free. How long is what `Conserving` proves: with at most 35 ready tasks
in each project no call ends so. With 36 one can: if they are all rejected and another
project saves up from nothing with the least weight for a costly task, the 64th visit
comes before the 30th of the other.

Three tasks make cycles of every length up to three, and a task that waits for two;
two dependencies of one task can be the same. The lifetimes of the policy are short
enough that each bound (of the action, of the rule, of the policy, the one the user
chooses) is in some case the one that counts. Four frames are a handshake, a large
request whose header may come with it, and one request on each side.

Fairness. `scheduler_turns` and `scheduler_starvation`: the host keeps calling
(`WF` on `Call`) and every run ends (`WF` on each `Finish`), since the budget of
every task limits its minutes. `agent_session`: the pipe delivers what was written
(`WF` on `Deliver`) and the event loop goes on (`WF` on `Serve`); the peer need not send
anything. `store_recovery`: a host that is down is started again and a host in the
middle of `open` proceeds (`WF` on each step of `open`), and from some moment on
startups are not killed half way. Without the latter nothing can be promised: a
host that is killed in every startup never recovers. The clock of this run does not
run backwards, because with a clock that does, recovery fails; that is the finding
of `store_clock`.

What the four violated runs show. `store_clock`: recovery stamps its events with
the host clock, and `SideEffect::validate` refuses a row updated before it was
authorized; if the clock is behind the caller-supplied time of the authorization,
`Store::open` fails, on every start until the clock catches up. Of what the model has, one other
thing makes it fail: a version-1 project that is not valid stops the upgrade on every start, as
the test `failed_upgrade_rolls_back_schema_data_and_version` demands (`store_clock` has no
projects). There is no third, whatever happened before: that is the theorem `StartupFailures`.
`store_rollback_copy`: if the rename of the database to its rollback name fails, the
error path removes the file at the database path, which is still the only
database. That rename (`move_db`) is therefore not among the operations that may fail
in `store_files`. Neither is the removal itself (`undo`), whose error the code
ignores: the rollback would go on over the installed copy, and undo it only if there
was a database before.

`scopes_overlap`: `src/a*` is cut to `src/a`, which does not meet `src/ab`; `*.ts`
is cut to the empty prefix, which meets nothing but itself. `scheduler_starvation`:
a project that has credit left for its next task keeps the cursor; if at the next
call a costlier task comes first, the project is topped up again without the cursor
having gone round. A low task that waits behind a stream of medium ones keeps the
credit from running out, and the other project waits for ever.

## Proofs

`VeaStoreProofs`, `VeaStoreHistoryProofs` and `VeaStoreLedgerProofs` prove, for every choice of the
constants that satisfies `StoreAssumption` (any sets of projects, actions,
commands, roots, fields and times; disjoint identifiers; absent values that are
not values) and `LegacyAssumption` (version-1 projects have the types and the
distinct roots their schema enforced):

| Theorem | States |
|---|---|
| `TypeCorrect` | `Spec => []TypeOK` |
| `LedgerAccepted` | `Spec => []StartupAcceptsLedger`: startup never refuses a ledger the store wrote |
| `ProjectionsFaithful` | `Spec => []ProjectionsMatchReplay`: rows and cursors equal the replay of the log |
| `AppendOnly` | `Spec => LedgerIsAppendOnly` |
| `RevisionsSpentOnce` | `Spec => []OneWinnerPerRevision` |
| `RetriesAnswered` | `Spec => []RetryIsReplayed` |
| `Audits` | `Spec => []AuditComplete`: one audit record for each event, none for a command that left none |
| `DamageDetected` | `Spec => []LedgerDamageIsDetected`: receipts and events fix each other |
| `ReplayLoop` | `Spec => []ReplayIsALoop`: the declarative replay is what the loop of `replay_derived_state` computes |
| `EffectsAsPromised` | `Spec => ImplementsEffectLedger`: the store implements `EffectLedger` |
| `ProjectsAsPromised` | `Spec => ImplementsProjectLedger`: the store implements `ProjectLedger` |
| `StartupFailures` | `Spec => StartupFailsForTwoReasons`: `Store::open` fails only if its clock reads less than the time at which an effect was authorized that it has to mark unknown, or if it upgrades a database with an invalid project; and no upgrade of such a database goes on |
| `SteadyClock` | `Spec => []OpenNeverFails`, if no reading of the clock is less than a time that clients put into envelopes, and the projects of version-1 databases are valid |

None of these properties is inductive. The invariant `Inv` of `VeaStoreProofs`
adds what is needed: the database is `Sound` in every mode (typed, receipts and
events match one by one, every event applies to the row its predecessors make,
roots are distinct in the replayed table, not merely in the stored one), the
projections are current from verification on, and the working copy of the
recovery transaction is sound, current and keeps the ledger it started from,
because `CommitRecovery` installs it. Soundness speaks of the ledger alone, so
damage to projections cannot break it; that the stored projects table is unique in
its roots helps only because it equals the replayed one whenever a command is
judged by it.

During an upgrade the database has no ledger yet (`Unledgered`) and the working copy
is what `Imports` says: its projects are those of the old database, no identifiers but
theirs are used, and it is sound and current if its projects are valid. The
condition matters: a copy with an invalid project would not replay, and
`CommitUpgrade` asks `ImportsValid` before it installs one.

The heart is that replay and execution agree: if a log replays to a row and a
command is permitted on it, the log with the command's event appended replays to
the row the command stores (`ReplayNewProject`, `ReplayNewEffect`), and to the
old rows of all other aggregates (`ReplayOther`). These rest on lemmas about the
last and the first position of a set, and on how each column changes when one
position is added. `ReplayLoop` puts them together for whole logs: `Derived`, what is replayed of
a log, is nothing for an empty one, and for each prefix it is one `Turn` of the code's loop
from what it is for the prefix before (`TurnDerives`; `PrefixApplies` carries the checks over to
prefixes). So the model may define rows by the positions of events, which a theorem can
speak of, where the code folds over them. `HistoryInv` adds what the log says of its clients: revisions
follow the expected ones, except that an import expects 0 and keeps its revision,
and expected revisions of an aggregate grow. `AuditInv` follows the audit table
through the three places that write an event and its record together (a command, an
import, a recovery), and shows that the record of a rebuild never passes for one of
a command.

The first refinement maps a store to the phases that its log stands for. The proof reads them
off the projections, which show the same while they are current (`PhasesShown`).
`EffectInv` says what else is needed: no effects exist during an upgrade, and the
working copy of a recovery shows an effect as the database does or, if it was started
there, as unknown (`Converts`). So a step of a recovery is a stutter and its commit is the
one step in which all interrupted effects become unknown; a command on an effect is
the one step of `EffectLedger` that its operation names, because `Permits` judges it by
rows that equal the replay.

The second refinement maps it to the projects of the log and to the client commands in it.
`ProjectInv` adds that the old projects are there until the upgrade is committed, that no
import counts as a client's change, and that the working copy of a recovery has the same
projects and changes as the database. A committed command is then one change
(`ProjectChanges`), the commit of an upgrade the adoption (`UpgradeAdopts`), and everything else
a stutter; that a command is used once follows from the receipts (`FreeCommand`).

The last two say when the promise that `store_clock` refutes is kept. A started effect is the
row of an event that replayed, so it is valid (`EffectRowsValid`), and of all that `validate`
asks of the row marked unknown only `authorized <= updated` can fail
(`RecoveryPermitted`, an equivalence). An imported project is as valid as the old one
(`ImportsAsValid`), so the old ones decide how an upgrade ends (`UpgradeEnds`). `StartupFailures`
assumes nothing more of the constants and adds that verification always passes, from `Sound`.
`SteadyClock` needs one invariant more: the authorizations in the log, and in a working copy, have
times of clients (`Timely`). Both are about the failures of this model. Files that cannot be read,
written or locked, and schemas of other builds, also make `Store::open` fail; they belong to
`StoreFiles`, where any step of an open may.

`SchedulerProofs` proves for every choice of the constants that satisfies
`SchedulerAssumption` (any number of projects, a finite set of tasks, any weights,
limits, routes and scopes): `SchedulerTypes` (`TypeOK`, among it that no project goes
into debt), `Limits` (`LimitsRespected`), `NoConflicts` (`NoConflictingRuns`) and
`Answered` (`EveryTaskAnswered`). The last is true in the middle of a call too, in
the form of `Queues`: what is queued is ready, not selected and not blocked, and what
is neither queued nor selected is blocked. The limits need `Counters`: the counters
of a call are upper bounds on the runs and selections that exist now, because runs
end during the call and none starts; the scopes a call has collected include those
of every run and selection.

`Conserving` is about a call as a whole: while no project has more than 35 ready tasks
(`FewReady`, a condition on the behaviour and not on the constants), no call leaves room
unused that a task it puts off for its concurrency could have had (`WorkConserving`). Its
invariant, `FullInv`, is a bound on impatience and a reason for what is held back. `Patience`: a
visit that selects nothing either saves, which a project does at most 29 times for the
costliest task, or takes a task out of the queue; so the visits of a project with tasks
left are at most what it has `Spent` of its 64, and the cursor's place in the round gives the
rest (`Since`). `Reasoned`: what was put off during the loop was put off because the runs of
its project or one of its lanes are at their limit, and those counters only grow. So
the loop ends with queues that are empty or with no slot free, never for want of
visits.

`PolicyProofs` proves for every choice of the constants that satisfies
`PolicyAssumption` (any proposals, policies, valid or not, broker states and
lifetimes): `PolicyTypes` (`TypeOK`), `ApprovalBinds` (`ApprovedAsSeen`), `Lifetimes`
(`WithinLifetime`), `ReadsOnly` (`OnlyReadsUnapproved`), `Confinement` (`Confined`) and
`Honoured` (`ApprovalHonoured`). An approval holds digests and not what was digested;
the invariant `IInv` therefore keeps with each question and each approval what the
user saw: `QuestionsSound` says that an approval of it was needed, `GrantsSound` that
the approval binds the requirement made from it and that its window fits. From
equal digests follows that what is performed is what was seen, and from the fit of
the window that `verify_approval` cannot refuse inside it.

`PlanningProofs` has three parts. For every set of finite graphs (`GraphsAssumption`): `GraphTypes`
(`TypeOK`, so that no count of edges falls below zero), `Verdicts` (`VerdictIsRight`) and
`Runnable` (`OrderIsRunnable`). The invariant relates the counts to the edges whose
ends are not taken yet (`CountsAreRight`), the queue to the tasks whose count is zero
(`QueueIsRight`), and the order to the graph (`TakenOnce`, `TakenInOrder`,
`TakenAcyclic`). That a graph which passes has no cycle follows from the order; that a
sound graph passes needs a task with no open edge among those left, which a set of
tasks without one contradicts, since `Sound` asks that no set of tasks depend on
itself throughout.

For every set of names, scopes of any length and paths (`ScopesAssumption`): `Symmetric`
(`ConflictIsSymmetric`) and `OverlapNoticed` (`AlignedOverlapConflicts`). In conservative mode
the loops return true exactly if some pair is unknown or meets (`Conservative`), and both
treat the two of a pair alike. A cut of a path gives each segment before the first
wildcard one name (`NamesOneByOne`); if that wildcard starts its segment, the prefix of the
scope is a prefix of the path (`AlignedPrefix`), and of two prefixes of one path one
begins the other (`PrefixesMeet`). `scopes_overlap` shows what goes wrong without the
condition.

For every set of candidates, tasks and policies with whole numbers
(`RoutingAssumption`): `StaleQuotas` (`StaleQuotaIgnored`). Forgetting an expired quota changes
nothing that a route depends on (`ForgottenFacts`); that the same candidate is then chosen needs
that there is a first one, which follows because scores with identifiers order any finite
set of candidates (`SomeFirst`, by the number of those that stand before).

`StoreFilesProofs` proves for any number of versions and schemas
(`FilesAssumption`: the counts are numbers, and an absent and a foreign file are not
databases), in two parts. Whichever operations fail (`Failable` is any set), by
`HostInv`: `FilesTyped` (`TypeOK`), `SchemaGate` (`SchemaFitsProgram`) and `BackupsStay`
(`BackupNeverOverwrites`). The others survive every failure but one or two, by
`RestoreInv`, each of whose conjuncts excludes only the failures that would break it:

- `WalFits` (`Coherent`) and `UpgradesBackedUp` (`UpgradeIsBackedUp`) need that a rollback can
  remove what is at the database path (`"undo"` is not in `Failable`), and nothing else. If it
  cannot, the old WAL returns to the side of the installed copy before the database does, and
  the rename of the database replaces a file of another schema.
- `CopyKept` (`RollbackCopyKept`) needs that the first rename does not fail (`"move_db"`), and
  nothing else. If it fails, the rollback removes the database that is still in its place, which
  is what `store_rollback_copy` shows.
- `RestoreResults` (`RestoreResultHolds`) needs both.

`RestoreInv` names, for
each step of a restore, which file is where: everything in its place before the
first rename (`InPlace`), what was moved and its WAL at one of the two
paths after it (`Apart`), nothing where the next rename goes to (`Absent`), the copy at
the database path once it is installed (`Installed`), at the rollback path the old database with
its WAL or no database while the rest is removed (`LeftAside`), nothing moved if a rollback finds
a database that needs its WAL (`Untouched`), and no result before the end
(`Pending`). It is needed because each step relies on what earlier ones left at paths
that it does not look at. `Readable`, that a database which needs its WAL has it, is the part of
`Coherent` that holds whatever fails; without it a restore that starts after a failed rollback
could not be followed.

`AgentSessionProofs` proves for every choice of the constants that satisfies
`SessionAssumption` (frames of any sizes, any limits): `SessionTypes` (`TypeOK`),
`ConformingServed` (`ConformingPeerIsServed`) and `AnswersAsPromised`
(`ImplementsAgentProtocol`). The invariant says that the frames in the batch are the
next ones to be answered (`Queued`), that the decoder's limit has not fallen since they
were judged by it (`Judged`), that both limits are what the first handshake that fits
has settled (`Agreed`), and that nothing a conforming peer has written exceeds the
decoder's limit of now (`Acceptable`). `Agreed` is where the refinement meets
`AgentProtocol`: the limit of the session is the limit that the answered requests alone
settle.

Only model-checked. `InterruptedBecomesUnknown`, `EveryFrameAnswered` and
`EveryProjectServed` are liveness under fairness, out of the prover's reach.

## Plan

Done, each with its runs and, where the section above says so, its theorems:
`VeaStore` with `EffectLedger` and `ProjectLedger`, `StoreFiles`, `WriteScopes` with `ScopeOverlap`, `Scheduler`, `Policy`,
`AgentSession` with `AgentProtocol`, `TaskGraph` and `Routing`. `VeaStore` and `StoreFiles` stay
apart: the first takes a database for a value, the second a value for a number, and
their product adds no behaviour to either.

What is left is to prove more, in this order:

1. A bound on waiting in `Scheduler`, as a safety property that implies part of
   `EveryProjectServed`: how many calls a project with a ready task that fits can be passed over.
2. An abstract specification of `StoreFiles` (a database, and copies of it that nothing
   changes), of which `BackupNeverOverwrites` and `RestoreResultHolds` are parts, and the
   refinement.

## Not modelled

The byte format of canonical encodings (golden vectors test it; a digest that does
not collide is an injective function), configuration and extension schemas
(stateless field checks), the desktop shell (presentation of demonstration data),
the readers of the store (they page through rows and change nothing), the table of
task transitions in `packages/domain` (nothing calls `canTransitionTask` yet).

The store records the approval that an authorization refers to and never asks
whether it was used before; the consumption of approvals is listed as not
implemented in `docs/PROGRESS.md`. There is thus nothing to check yet: `Retire` in
`Policy` is the place where a host that consumes approvals would do so.
