----------------------- MODULE VeaStoreHistoryProofs -----------------------
(***************************************************************************)
(* What the log and the audit table say of the clients that wrote them:    *)
(* every expected revision of an aggregate was spent once, what a client   *)
(* committed can be asked for again, and every event has its one record.   *)
(*                                                                         *)
(* The first two follow from one more inductive property of the log, which *)
(* is stated about the committed log and about the logs of the recovery    *)
(* and, if its projects are valid, of the upgrade, since CommitRecovery and*)
(* CommitUpgrade install these.  For the third, a record is written with   *)
(* its event in each of three places (a command, an import, a recovery),   *)
(* and a rebuild adds a record of its own, which must not pass for one of  *)
(* a command.  Then, what the startup checks leave no room for, and the    *)
(* replay as the loop that it is in the code.                              *)
(***************************************************************************)
EXTENDS VeaStoreProofs

(* Revisions follow the expected ones, except for an import, which expects *)
(* nothing; a later command of an aggregate expects what an earlier one    *)
(* made or more; and a client's event is of an envelope that is accepted.  *)
Follows(e) ==
  /\ e.req.expected < e.rev
  /\ e.req.cmd.op # "import" => e.rev = e.req.expected + 1
  /\ e.req.cmd.op = "import" => e.req.expected = 0
  /\ e.req.cid \in Commands => Acceptable(e.req)

History(ev) ==
  /\ \A i \in 1..Len(ev) : Follows(ev[i])
  /\ \A i, j \in 1..Len(ev) :
       i < j /\ ev[i].req.id = ev[j].req.id => ev[i].rev <= ev[j].req.expected

HistoryInv ==
  /\ Inv
  /\ History(db.events)
  /\ mode = "upgrading" /\ ImportsValid(tx.work) => History(tx.work.events)
  /\ mode = "recovering" => History(tx.work.events)

-----------------------------------------------------------------------------

(* No event of an aggregate has a revision above that of its last event.   *)
LEMMA LatestTops ==
  ASSUME NEW ev \in Seq(Event), History(ev), NEW x,
         NEW i \in EventsOf(ev, Len(ev), x)
  PROVE  ev[i].rev <= ev[Latest(EventsOf(ev, Len(ev), x))].rev
<1> DEFINE S == EventsOf(ev, Len(ev), x)
           k == Latest(S)
<1>1. S \in SUBSET (1..Len(ev)) /\ S # {} /\ Len(ev) \in Nat
  BY EventsOfTypes
<1>2. k \in S /\ i <= k
  <2> HIDE DEF S
  <2>1. i \in S
    BY DEF S
  <2> QED BY <1>1, <2>1, LatestIs
<1>3. k \in 1..Len(ev) /\ i \in 1..Len(ev) /\ ev[k].req.id = ev[i].req.id
  BY <1>1, <1>2 DEF EventsOf
<1>4. /\ ev[i].rev \in Nat /\ ev[k].req.expected \in Nat /\ ev[k].rev \in Nat
      /\ ev[k].req.expected < ev[k].rev
  BY <1>3, EventTypes, EnvelopeTypes DEF History, Follows
<1>5. CASE i = k
  BY <1>4, <1>5
<1>6. CASE i # k
  <2>1. i < k
    BY <1>2, <1>3, <1>6
  <2>2. ev[i].rev <= ev[k].req.expected
    BY <1>3, <2>1 DEF History
  <2> QED BY <1>4, <2>2
<1> QED BY <1>5, <1>6

(* The revision of a replayed row bounds the revisions of its events.      *)
LEMMA RevisionTops ==
  ASSUME NEW ev \in Seq(Event), Applies(ev, Len(ev)), History(ev),
         NEW x \in Aggregates, NEW row,
         x \in Projects => row = ReplayProject(ev, Len(ev), x),
         x \notin Projects => row = ReplayEffect(ev, Len(ev), x),
         NEW i \in EventsOf(ev, Len(ev), x)
  PROVE  ev[i].rev <= Revision(row)
<1>1. EventsOf(ev, Len(ev), x) # {} /\ Len(ev) \in 0..Len(ev)
  OBVIOUS
<1>2. row # NoRow
  <2>1. CASE x \in Projects
    BY <1>1, <2>1, ProjectRowTyped, StoreAssumption
  <2>2. CASE x \notin Projects
    <3>1. x \in Actions
      BY <2>2 DEF Aggregates
    <3> QED BY <1>1, <2>2, <3>1, EffectRowTyped, StoreAssumption
  <2> QED BY <2>1, <2>2
<1>3. Revision(row) = ev[Latest(EventsOf(ev, Len(ev), x))].rev
  <2>1. row.rev = ev[Latest(EventsOf(ev, Len(ev), x))].rev
    BY <1>1 DEF ReplayProject, ReplayEffect, ProjectOf, EffectOf
  <2> QED BY <1>2, <2>1 DEF Revision
<1> QED BY <1>3, LatestTops

(* A log stays a history when an event is added whose expected revision    *)
(* is that of the row it was judged by.                                    *)
LEMMA HistoryGrows ==
  ASSUME NEW ev \in Seq(Event), Applies(ev, Len(ev)), History(ev),
         NEW e \in Event, NEW ev2, Extends(ev2, ev, e), NEW row,
         e.req.id \in Projects => row = ReplayProject(ev, Len(ev), e.req.id),
         e.req.id \notin Projects => row = ReplayEffect(ev, Len(ev), e.req.id),
         e.req.expected = Revision(row), Follows(e)
  PROVE  History(ev2)
<1>1. PICK n \in Nat : n = Len(ev)
  OBVIOUS
<1>2. /\ Len(ev2) = n + 1 /\ ev2[n + 1] = e
      /\ \A i \in 1..n : ev2[i] = ev[i]
      /\ \A i \in 1..Len(ev2) : i \in 1..n \/ i = n + 1
  BY <1>1, ExtendsTypes
<1>3. e.req.id \in Aggregates /\ e.req.expected \in Nat
  <2>1. e.req \in Envelope
    BY DEF Event
  <2> QED BY <2>1, EnvelopeTypes DEF Aggregates
<1>4. ASSUME NEW i \in 1..Len(ev2)
      PROVE  Follows(ev2[i])
  <2>1. CASE i \in 1..n
    BY <1>1, <1>2, <2>1 DEF History
  <2>2. CASE i = n + 1
    BY <1>2, <2>2
  <2> QED BY <1>2, <2>1, <2>2
<1>5. ASSUME NEW i \in 1..Len(ev2), NEW j \in 1..Len(ev2), i < j,
             ev2[i].req.id = ev2[j].req.id
      PROVE  ev2[i].rev <= ev2[j].req.expected
  <2>1. i \in 1..n /\ ev2[i] = ev[i]
    BY <1>2, <1>5
  <2>2. CASE j \in 1..n
    BY <1>1, <1>2, <1>5, <2>1, <2>2 DEF History
  <2>3. CASE j = n + 1
    <3>1. i \in EventsOf(ev, Len(ev), e.req.id)
      BY <1>1, <1>2, <1>5, <2>1, <2>3 DEF EventsOf
    <3>2. ev[i].rev <= e.req.expected
      BY <1>3, <3>1, RevisionTops
    <3> QED BY <1>2, <2>1, <2>3, <3>2
  <2> QED BY <1>2, <2>2, <2>3
<1> QED BY <1>4, <1>5 DEF History

(* A command that commits leaves a history behind.                         *)
LEMMA CommitHistory ==
  ASSUME NEW d, Sound(d), ProjectionsCurrent(d), History(d.events),
         NEW env \in Envelope, Permits(d, env),
         env.cid \in Commands => Acceptable(env),
         NEW d2, d2 = Committed(d, env)
  PROVE  History(d2.events)
<1>1. PICK ev \in Seq(Event) : ev = d.events /\ Applies(ev, Len(ev)) /\ History(ev)
  BY DatabaseTypes DEF Sound
<1>2. env.id \in Aggregates /\ env.expected \in Nat
  BY EnvelopeTypes DEF Aggregates
<1>3. /\ d.projects \in [Projects -> ProjectRow \cup {NoRow}]
      /\ d.effects \in [Actions -> EffectRow \cup {NoRow}]
  BY DatabaseTypes DEF Sound
<1>4. CASE env.id \in Projects
  <2>1. PICK row : row = d.projects[env.id]
    OBVIOUS
  <2>2. row = ReplayProject(ev, Len(ev), env.id) /\ row \in ProjectRow \cup {NoRow}
    BY <1>1, <1>3, <1>4, <2>1
    DEF ProjectionsCurrent, ProjectsCurrent, ReplayProjects
  <2>3. /\ env.expected = Revision(row) /\ ProjectMoves(row, env.cmd)
        /\ ProjectValid(NextProject(row, env, 0))
    BY <1>4, <2>1 DEF Permits, ProjectPermits
  <2>4. env.cmd \in ProjectCommand
    BY <1>4, EnvelopeTypes
  <2>5. PICK rev : rev = NextProject(row, env, Len(ev) + 1).rev
    OBVIOUS
  <2>6. rev = RevisionAfter(row, env.cmd) /\ rev \in Nat /\ rev > 0
    <3>1. PICK next : next = NextProject(row, env, Len(ev) + 1)
      OBVIOUS
    <3>2. next.rev = RevisionAfter(row, env.cmd) /\ next.rev \in Nat /\ ProjectValid(next)
      BY <2>2, <2>3, <2>4, <3>1, NextProjectFacts
    <3> QED BY <2>5, <3>1, <3>2 DEF ProjectValid
  <2>7. d2.events = Append(ev, [rev |-> rev, req |-> env])
    BY <1>1, <1>4, <2>1, <2>5 DEF Committed, ExecuteProject, Recorded
  <2>8. PICK e : e = [rev |-> rev, req |-> env]
    OBVIOUS
  <2>9. e \in Event /\ e.req = env /\ e.rev = rev
    BY <2>6, <2>8 DEF Event
  <2>10. PICK ev2 : ev2 = d2.events
    OBVIOUS
  <2>11. Extends(ev2, ev, e)
    BY <2>7, <2>8, <2>10 DEF Extends
  <2>12. Follows(e)
    <3>1. CASE env.cmd.op = "import"
      <4>1. env.expected = 0
        BY <2>3, <3>1 DEF ProjectMoves, Revision
      <4> QED BY <2>6, <2>9, <3>1, <4>1 DEF Follows, Acceptable
    <3>2. CASE env.cmd.op # "import"
      <4>1. rev = env.expected + 1
        BY <2>3, <2>6, <3>2 DEF RevisionAfter
      <4> QED BY <1>2, <2>9, <3>2, <4>1 DEF Follows, Acceptable
    <3> QED BY <3>1, <3>2
  <2>13. History(ev2)
    BY <1>1, <1>4, <2>2, <2>3, <2>9, <2>11, <2>12, HistoryGrows
  <2> QED BY <2>10, <2>13
<1>5. CASE env.id \notin Projects
  <2>1. PICK row : row = d.effects[env.id]
    OBVIOUS
  <2>2. env.id \in Actions /\ env.cmd \in EffectCommand
    BY <1>5, EnvelopeTypes
  <2>3. row = ReplayEffect(ev, Len(ev), env.id) /\ row \in EffectRow \cup {NoRow}
    BY <1>1, <1>3, <2>1, <2>2
    DEF ProjectionsCurrent, EffectsCurrent, ReplayEffects
  <2>4. env.expected = Revision(row) /\ EffectMoves(row, env.cmd)
    BY <1>5, <2>1 DEF Permits, EffectPermits
  <2>5. PICK rev : rev = NextEffect(row, env, Len(ev) + 1).rev
    OBVIOUS
  <2>6. rev = env.expected + 1 /\ rev \in Nat
    BY <1>2, <2>2, <2>3, <2>4, <2>5, NextEffectFacts
  <2>7. d2.events = Append(ev, [rev |-> rev, req |-> env])
    BY <1>1, <1>5, <2>1, <2>5 DEF Committed, ExecuteEffect, Recorded
  <2>8. PICK e : e = [rev |-> rev, req |-> env]
    OBVIOUS
  <2>9. e \in Event /\ e.req = env /\ e.rev = rev
    BY <2>6, <2>8 DEF Event
  <2>10. PICK ev2 : ev2 = d2.events
    OBVIOUS
  <2>11. Extends(ev2, ev, e)
    BY <2>7, <2>8, <2>10 DEF Extends
  <2>12. Follows(e)
    <3>1. env.cmd.op # "import"
      BY <2>2, EffectCommandTypes
    <3> QED BY <1>2, <2>6, <2>9, <3>1 DEF Follows, Acceptable
  <2>13. History(ev2)
    BY <1>1, <1>5, <2>3, <2>4, <2>9, <2>11, <2>12, HistoryGrows
  <2> QED BY <2>10, <2>13
<1> QED BY <1>4, <1>5

(* A project that is taken over comes first of its events.                 *)
LEMMA ImportHistory ==
  ASSUME HistoryInv, NEW p \in Projects, ImportProject(p)
  PROVE  HistoryInv'
<1>1. /\ Inv /\ Inv' /\ History(db.events) /\ db' = db /\ mode = "upgrading"
      /\ mode' = "upgrading"
  BY ImportStep DEF HistoryInv, ImportProject
<1>2. ASSUME ImportsValid(tx'.work) PROVE History(tx'.work.events)
  <2>1. PICK d : d = tx.work
    OBVIOUS
  <2>2. PICK env : env = ImportEnvelope(p)
    OBVIOUS
  <2>3. PICK d2 : d2 = Committed(d, env)
    OBVIOUS
  <2>4. Imports(db, d) /\ d \in Database /\ db \in Database /\ d.projects[p] = NoRow
    BY <1>1, <2>1 DEF Inv, Imports, Sound, ImportProject
  <2>5. PICK row \in ProjectRow : row = db.projects[p]
    BY <2>4, DatabaseTypes DEF ImportProject
  <2>6. env \in Envelope /\ env.id = p /\ env.expected = 0 /\ env.cmd.op = "import"
    BY <2>2, <2>4, <2>5, ImportEnvelopeTyped
  <2>7. d2 = ExecuteProject(d, env) /\ tx'.work = d2
    BY <2>1, <2>2, <2>3, <2>6 DEF Committed, ImportProject
  <2>8. ImportsValid(d) /\ Sound(d) /\ ProjectionsCurrent(d) /\ ProjectPermits(d, env)
    BY <1>1, <1>2, <2>1, <2>2, <2>7, ImportPermitted
  <2>9. History(d.events)
    BY <1>1, <2>1, <2>8 DEF HistoryInv
  <2>10. Permits(d, env)
    BY <2>6, <2>8 DEF Permits
  <2>11. History(d2.events)
    BY <2>3, <2>6, <2>8, <2>9, <2>10, CommitHistory DEF Acceptable
  <2> QED BY <2>7, <2>11
<1> QED BY <1>1, <1>2 DEF HistoryInv

(* Only commands, recovery and the upgrade write events.                   *)
LEMMA HistoryStep ==
  ASSUME HistoryInv, [Next]_vars
  PROVE  HistoryInv'
<1>1. Inv /\ Inv' /\ History(db.events)
  BY StepInv DEF HistoryInv
<1>2. CASE BeginRecovery
  <2>1. db' = db /\ \E now \in Clock : tx' = [work |-> db, now |-> now]
    BY <1>2 DEF BeginRecovery
  <2>2. db' = db /\ tx'.work = db
    BY <2>1
  <2> QED BY <1>1, <2>2 DEF HistoryInv
<1>3. ASSUME NEW a \in Actions, RecoverEffect(a)
      PROVE  HistoryInv'
  <2>1. /\ db' = db /\ mode = "recovering" /\ Sound(tx.work) /\ ProjectionsCurrent(tx.work)
        /\ tx.now \in Clock /\ a \in Started(tx.work) /\ History(tx.work.events)
    BY <1>3 DEF RecoverEffect, HistoryInv, Inv
  <2>2. PICK cid \in RecoveryIds :
          IF EffectPermits(tx.work, RecoveryEnvelope(a, cid))
          THEN /\ tx' = [work |-> ExecuteEffect(tx.work, RecoveryEnvelope(a, cid)),
                         now |-> tx.now]
               /\ mode' = mode
          ELSE tx' = NoTx /\ mode' = "failed"
    BY <1>3 DEF RecoverEffect
  <2>3. PICK env \in Envelope : /\ env = RecoveryEnvelope(a, cid)
                                /\ env.id = a /\ env.cid = cid
    BY <2>1, RecoveryEnvelopeTyped DEF Sound
  <2>4. CASE EffectPermits(tx.work, env)
    <3>1. PICK d2 : d2 = Committed(tx.work, env)
      OBVIOUS
    <3>2. a \notin Projects /\ cid \notin Commands
      BY StoreAssumption
    <3>3. tx'.work = d2 /\ Permits(tx.work, env)
      BY <2>2, <2>3, <2>4, <3>1, <3>2 DEF Committed, Permits
    <3>4. History(d2.events)
      BY <2>1, <2>3, <3>1, <3>2, <3>3, CommitHistory
    <3> QED BY <1>1, <2>1, <3>3, <3>4 DEF HistoryInv
  <2>5. CASE ~EffectPermits(tx.work, env)
    <3>1. mode' = "failed"
      BY <2>2, <2>3, <2>5
    <3> QED BY <1>1, <2>1, <3>1 DEF HistoryInv
  <2> QED BY <2>4, <2>5
<1>4. CASE CommitRecovery
  <2>1. db' = tx.work /\ mode = "recovering" /\ mode' = "open"
    BY <1>4 DEF CommitRecovery
  <2> QED BY <1>1, <2>1 DEF HistoryInv
<1>5. ASSUME NEW env \in ClientEnvelopes, Execute(env)
      PROVE  HistoryInv'
  <2>1. mode = "open" /\ mode' = "open" /\ Sound(db) /\ ProjectionsCurrent(db)
    BY <1>1, <1>5 DEF Execute, Inv
  <2>2. CASE Outcome(db, env) = "committed"
    <3>1. PICK d2 : d2 = Committed(db, env) /\ db' = d2
      BY <1>5, <2>2 DEF Execute
    <3>2. Permits(db, env)
      BY <2>2, Zenon DEF Outcome
    <3>3. Acceptable(env)
      BY <2>2, Zenon DEF Outcome
    <3>4. env \in Envelope
      BY ClientEnvelopesTyped
    <3>5. History(d2.events)
      BY <1>1, <2>1, <3>1, <3>2, <3>3, <3>4, CommitHistory
    <3> QED BY <1>1, <2>1, <3>1, <3>5 DEF HistoryInv
  <2>3. CASE Outcome(db, env) # "committed"
    <3>1. db' = db
      BY <1>5, <2>3 DEF Execute
    <3> QED BY <1>1, <2>1, <3>1 DEF HistoryInv
  <2> QED BY <2>2, <2>3
<1>6. CASE VerifyAndRepair
  <2>1. db'.events = db.events /\ mode' \in {"verified", "failed"}
    BY <1>6 DEF VerifyAndRepair, Rebuilt
  <2> QED BY <1>1, <2>1 DEF HistoryInv
<1>7. CASE StartOpen \/ Crash
  <2>1. db' = db /\ mode' \in {"opening", "closed", "unmigrated"}
    BY <1>7 DEF StartOpen, Crash, Closed
  <2> QED BY <1>1, <2>1 DEF HistoryInv
<1>8. CASE Damage
  <2>1. mode' = "closed" /\ db' \in StaleProjections(db) \cup OverwrittenFields(db)
    BY <1>8 DEF Damage
  <2>2. db'.events = db.events
    BY <2>1 DEF StaleProjections, OverwrittenFields, WithProjections
  <2> QED BY <1>1, <2>1, <2>2 DEF HistoryInv
<1>9. CASE UNCHANGED vars
  BY <1>1, <1>9 DEF HistoryInv, vars
<1>10. CASE BeginUpgrade
  <2>1. db' = db /\ mode' = "upgrading" /\ tx'.work = EmptyDatabase
    BY <1>10 DEF BeginUpgrade
  <2>2. EmptyDatabase.events = <<>>
    BY DEF EmptyDatabase
  <2>3. History(EmptyDatabase.events)
    BY <2>2 DEF History
  <2> QED BY <1>1, <2>1, <2>3 DEF HistoryInv
<1>11. ASSUME NEW p \in Projects, ImportProject(p)
       PROVE  HistoryInv'
  BY <1>11, ImportHistory
<1>12. CASE CommitUpgrade
  <2>1. mode = "upgrading" /\ mode' \in {"opening", "refused"}
    BY <1>12 DEF CommitUpgrade
  <2>2. db' = db \/ (db' = tx.work /\ ImportsValid(tx.work))
    BY <1>12 DEF CommitUpgrade
  <2> QED BY <1>1, <2>1, <2>2 DEF HistoryInv
<1> QED BY <1>2, <1>3, <1>4, <1>5, <1>6, <1>7, <1>8, <1>9, <1>10, <1>11, <1>12 DEF Next

(* The log is a history at all times.                                      *)
THEOREM HistoryInvariance ==
  Spec => []HistoryInv
<1>1. Init => HistoryInv
  <2> SUFFICES ASSUME Init PROVE HistoryInv
    OBVIOUS
  <2>1. db.events = <<>> /\ mode = "unmigrated"
    BY DEF Init, EmptyDatabase
  <2>2. History(db.events)
    BY <2>1 DEF History
  <2> QED BY <2>1, <2>2, InitInv DEF HistoryInv
<1>2. HistoryInv /\ [Next]_vars => HistoryInv'
  BY HistoryStep
<1> QED BY <1>1, <1>2, PTL DEF Spec

(* Of the commands sent to an aggregate with one expected revision at most *)
(* one ever commits, however many clients send them and in whatever order. *)
THEOREM RevisionsSpentOnce ==
  Spec => []OneWinnerPerRevision
<1>1. HistoryInv => OneWinnerPerRevision
  <2> SUFFICES ASSUME HistoryInv, NEW i \in 1..Len(db.events), NEW j \in 1..Len(db.events),
                      i < j, db.events[i].req.id = db.events[j].req.id
               PROVE  /\ db.events[i].req.expected < db.events[j].req.expected
                      /\ db.events[j].rev = db.events[j].req.expected + 1
    BY DEF OneWinnerPerRevision
  <2>1. /\ Follows(db.events[i]) /\ Follows(db.events[j])
        /\ db.events[i].rev <= db.events[j].req.expected
    BY DEF HistoryInv, History
  <2>2. \A k \in 1..Len(db.events) : db.events[k].rev \in Nat /\ db.events[k].req.expected \in Nat
    BY DatabaseTypes, EventTypes, EnvelopeTypes DEF HistoryInv, Inv, Sound
  <2> QED BY <2>1, <2>2 DEF Follows, Acceptable
<1> QED BY HistoryInvariance, <1>1, PTL

(* A client may send a committed envelope again at any later time: it is   *)
(* answered with the receipt of the event it produced.                     *)
THEOREM RetriesAnswered ==
  Spec => []RetryIsReplayed
<1>1. HistoryInv => RetryIsReplayed
  <2> SUFFICES ASSUME HistoryInv, NEW i \in 1..Len(db.events),
                      db.events[i].req.cid \in Commands
               PROVE  /\ Outcome(db, db.events[i].req) = "replayed"
                      /\ db.receipts[db.events[i].req.cid].seq = i
    BY DEF RetryIsReplayed
  <2>1. Sound(db) /\ db.events \in Seq(Event) /\ Len(db.events) \in Nat
    BY DatabaseTypes DEF HistoryInv, Inv, Sound
  <2>2. PICK env \in Envelope : env = db.events[i].req
    BY <2>1, EventTypes
  <2>3. PICK receipt : receipt = [req |-> env, rev |-> db.events[i].rev, seq |-> i]
    OBVIOUS
  <2>4. receipt \in Receipt
    <3>1. db.events[i].rev \in Nat
      BY <2>1, EventTypes
    <3>2. i \in Nat
      BY <2>1
    <3> QED BY <2>3, <3>1, <3>2 DEF Receipt
  <2>5. db.receipts[env.cid] = receipt /\ receipt # NoReceipt
    BY <2>1, <2>2, <2>3, <2>4, StoreAssumption DEF Sound, ReceiptsMatch
  <2>6. receipt.req = env /\ receipt.seq = i
    BY <2>3
  <2>7. Acceptable(env)
    BY <2>2, Zenon DEF HistoryInv, History, Follows
  <2>8. Outcome(db, env) = "replayed"
    BY <2>5, <2>6, <2>7, Zenon DEF Outcome
  <2> QED BY <2>2, <2>5, <2>6, <2>8
<1> QED BY HistoryInvariance, <1>1, PTL

-----------------------------------------------------------------------------
(* The audit table.                                                        *)

RecordsOf(d, c) == {k \in 1..Len(d.audit) : d.audit[k].cid = c}

Audited(d) ==
  /\ \A i \in 1..Len(d.events) : \E k \in 1..Len(d.audit) :
       /\ RecordsOf(d, d.events[i].req.cid) = {k}
       /\ d.audit[k].class = AuditClass(d.events[i].req.cmd)
  /\ \A c \in CommandIds : RecordsOf(d, c) # {} => d.receipts[c] # NoReceipt

AuditInv ==
  /\ Inv
  /\ Audited(db)
  /\ mode \in {"upgrading", "recovering"} => Audited(tx.work)

-----------------------------------------------------------------------------

(* What one more record does to the records of each command.               *)
LEMMA RecordsGrow ==
  ASSUME NEW d \in Database, NEW record, NEW d2, d2.audit = Append(d.audit, record), NEW c
  PROVE  /\ Len(d.audit) \in Nat /\ Len(d2.audit) = Len(d.audit) + 1
         /\ d2.audit[Len(d.audit) + 1] = record
         /\ \A k \in 1..Len(d.audit) : d2.audit[k] = d.audit[k]
         /\ RecordsOf(d2, c) = IF record.cid = c THEN RecordsOf(d, c) \cup {Len(d.audit) + 1}
                                                 ELSE RecordsOf(d, c)
<1>1. PICK au \in Seq(Audit) : au = d.audit
  BY DatabaseTypes
<1>2. PICK n \in Nat : n = Len(au)
  BY <1>1
<1>3. PICK au2 : au2 = Append(au, record)
  OBVIOUS
<1>4. /\ Len(au2) = n + 1 /\ au2[n + 1] = record
      /\ \A k \in 1..n : au2[k] = au[k]
  BY <1>2, <1>3
<1>5. \A k \in 1..Len(au2) : k \in 1..n \/ k = n + 1
  BY <1>4
<1>6. n + 1 \in 1..Len(au2) /\ \A k \in 1..n : k \in 1..Len(au2)
  BY <1>4
<1>7. RecordsOf(d, c) = {k \in 1..n : au[k].cid = c}
      /\ RecordsOf(d2, c) = {k \in 1..Len(au2) : au2[k].cid = c}
  BY <1>1, <1>2, <1>3 DEF RecordsOf
<1>8. CASE record.cid = c
  BY <1>1, <1>2, <1>3, <1>4, <1>5, <1>6, <1>7, <1>8
<1>9. CASE record.cid # c
  BY <1>1, <1>2, <1>3, <1>4, <1>5, <1>6, <1>7, <1>9
<1> QED BY <1>8, <1>9

(* A new event and its record leave everything audited: the identifier of  *)
(* the command has no receipt yet, and so neither an event nor a record.   *)
LEMMA RecordedAudited ==
  ASSUME NEW d \in Database, ReceiptsMatch(d), Audited(d), NEW env \in Envelope,
         NEW rev \in Nat, d.receipts[env.cid] = NoReceipt, NEW d2,
         d2.events = Recorded(d, env, rev).events,
         d2.receipts = Recorded(d, env, rev).receipts,
         d2.audit = Recorded(d, env, rev).audit
  PROVE  Audited(d2)
<1>1. PICK record : record = [cid |-> env.cid, class |-> AuditClass(env.cmd)]
  OBVIOUS
<1>2. record.cid = env.cid /\ record.class = AuditClass(env.cmd)
  BY <1>1
<1>3. d2.audit = Append(d.audit, record)
  BY <1>1 DEF Recorded
<1>4. PICK m \in Nat : m = Len(d.audit)
  BY DatabaseTypes
<1>5. /\ Len(d2.audit) = m + 1 /\ d2.audit[m + 1] = record
      /\ \A k \in 1..m : d2.audit[k] = d.audit[k]
      /\ \A c : RecordsOf(d2, c) = IF env.cid = c THEN RecordsOf(d, c) \cup {m + 1}
                                                  ELSE RecordsOf(d, c)
  BY <1>2, <1>3, <1>4, RecordsGrow
<1>6. env.cid \in CommandIds
  BY EnvelopeTypes
<1>7. RecordsOf(d, env.cid) = {}
  BY <1>6 DEF Audited
<1>8. PICK e \in Event : e = [rev |-> rev, req |-> env]
  BY DEF Event
<1>9. /\ Extends(d2.events, d.events, e) /\ e.req = env
      /\ d2.receipts \in [CommandIds -> Receipt \cup {NoReceipt}]
      /\ ReceiptsMatch(d2)
  BY <1>8, RecordedSound
<1>10. PICK ev \in Seq(Event) : ev = d.events
  BY DatabaseTypes
<1>11. PICK n \in Nat : n = Len(ev)
  BY <1>10
<1>12. PICK ev2 : ev2 = d2.events
  OBVIOUS
<1>13. /\ Len(ev2) = n + 1 /\ ev2[n + 1] = e
       /\ \A i \in 1..n : ev2[i] = ev[i]
       /\ \A i \in 1..Len(ev2) : i \in 1..n \/ i = n + 1
  BY <1>9, <1>10, <1>11, <1>12, ExtendsTypes
<1>14. ASSUME NEW i \in 1..Len(ev2)
       PROVE  \E k \in 1..Len(d2.audit) :
                /\ RecordsOf(d2, ev2[i].req.cid) = {k}
                /\ d2.audit[k].class = AuditClass(ev2[i].req.cmd)
  <2>1. CASE i = n + 1
    <3>1. m + 1 \in 1..Len(d2.audit)
      BY <1>5
    <3>2. RecordsOf(d2, env.cid) = {m + 1}
      BY <1>5, <1>7
    <3> QED BY <1>2, <1>5, <1>9, <1>13, <2>1, <3>1, <3>2
  <2>2. CASE i \in 1..n
    <3>1. PICK k \in 1..m : /\ RecordsOf(d, ev[i].req.cid) = {k}
                            /\ d.audit[k].class = AuditClass(ev[i].req.cmd)
      BY <1>4, <1>10, <1>11, <2>2 DEF Audited
    <3>2. ev[i].req.cid # env.cid
      BY <1>7, <3>1
    <3>3. k \in 1..Len(d2.audit)
      BY <1>5
    <3> QED BY <1>5, <1>13, <2>2, <3>1, <3>2, <3>3
  <2> QED BY <1>13, <2>1, <2>2
<1>15. ASSUME NEW c \in CommandIds, RecordsOf(d2, c) # {}
       PROVE  d2.receipts[c] # NoReceipt
  <2>1. CASE c = env.cid
    <3>1. PICK r \in Receipt : r = [req |-> env, rev |-> rev, seq |-> n + 1]
      <4>1. [req |-> env, rev |-> rev, seq |-> n + 1] \in Receipt
        BY DEF Receipt
      <4> QED BY <4>1
    <3>2. d2.receipts = [d.receipts EXCEPT ![env.cid] = r]
      BY <1>10, <1>11, <3>1 DEF Recorded
    <3> QED BY <1>6, <2>1, <3>1, <3>2, DatabaseTypes, StoreAssumption
  <2>2. CASE c # env.cid
    <3>1. RecordsOf(d, c) # {}
      BY <1>5, <1>15, <2>2
    <3>2. d2.receipts[c] = d.receipts[c]
      BY <1>6, <2>2, DatabaseTypes DEF Recorded
    <3> QED BY <3>1, <3>2 DEF Audited
  <2> QED BY <2>1, <2>2
<1> QED BY <1>12, <1>14, <1>15 DEF Audited

(* A rebuild writes a record that belongs to no command.                   *)
LEMMA RebuiltAudited ==
  ASSUME NEW d \in Database, Audited(d), NEW d2, d2 = Rebuilt(d)
  PROVE  Audited(d2)
<1>1. PICK record : record = [cid |-> "rebuild", class |-> "succeeded"]
  OBVIOUS
<1>2. d2.events = d.events /\ d2.receipts = d.receipts /\ d2.audit = Append(d.audit, record)
  BY <1>1 DEF Rebuilt
<1>3. PICK m \in Nat : m = Len(d.audit)
  BY DatabaseTypes
<1>4. /\ Len(d2.audit) = m + 1
      /\ \A k \in 1..m : d2.audit[k] = d.audit[k]
      /\ \A c : RecordsOf(d2, c) = IF record.cid = c THEN RecordsOf(d, c) \cup {m + 1}
                                                     ELSE RecordsOf(d, c)
  BY <1>2, <1>3, RecordsGrow
<1>5. \A c \in CommandIds : RecordsOf(d2, c) = RecordsOf(d, c)
  BY <1>1, <1>4, StoreAssumption
<1>6. ASSUME NEW i \in 1..Len(d.events)
      PROVE  \E k \in 1..Len(d2.audit) :
               /\ RecordsOf(d2, d.events[i].req.cid) = {k}
               /\ d2.audit[k].class = AuditClass(d.events[i].req.cmd)
  <2>1. PICK k \in 1..m : /\ RecordsOf(d, d.events[i].req.cid) = {k}
                          /\ d.audit[k].class = AuditClass(d.events[i].req.cmd)
    BY <1>3, <1>6 DEF Audited
  <2>2. d.events[i].req.cid \in CommandIds
    BY <1>6, DatabaseTypes, EventTypes, EnvelopeTypes
  <2>3. k \in 1..Len(d2.audit)
    BY <1>4
  <2> QED BY <1>4, <1>5, <2>1, <2>2, <2>3
<1> QED BY <1>2, <1>5, <1>6 DEF Audited

(* A command, an import or a recovery commits its record with its event.   *)
LEMMA CommittedAudited ==
  ASSUME NEW d \in Database, ReceiptsMatch(d), Audited(d), NEW env \in Envelope,
         d.receipts[env.cid] = NoReceipt, NEW d2, d2 = Committed(d, env), d2 \in Database
  PROVE  Audited(d2)
<1>1. PICK n \in Nat : n = Len(d.events)
  BY DatabaseTypes
<1>2. PICK rev : /\ d2.events = Recorded(d, env, rev).events
                 /\ d2.receipts = Recorded(d, env, rev).receipts
                 /\ d2.audit = Recorded(d, env, rev).audit
  <2>1. CASE env.id \in Projects
    <3>1. PICK rev : rev = NextProject(d.projects[env.id], env, Len(d.events) + 1).rev
      OBVIOUS
    <3> QED BY <2>1, <3>1 DEF Committed, ExecuteProject
  <2>2. CASE env.id \notin Projects
    <3>1. PICK rev : rev = NextEffect(d.effects[env.id], env, Len(d.events) + 1).rev
      OBVIOUS
    <3> QED BY <2>2, <3>1 DEF Committed, ExecuteEffect
  <2> QED BY <2>1, <2>2
<1>3. rev \in Nat
  <2>1. PICK e : e = [rev |-> rev, req |-> env]
    OBVIOUS
  <2>2. d2.events = Append(d.events, e)
    BY <1>2, <2>1 DEF Recorded
  <2>3. d2.events \in Seq(Event) /\ d.events \in Seq(Event)
    BY DatabaseTypes
  <2>4. e \in Event
    <3>1. Len(d2.events) = n + 1 /\ d2.events[n + 1] = e
      BY <1>1, <2>2, <2>3
    <3>2. n + 1 \in 1..Len(d2.events)
      BY <3>1
    <3> QED BY <2>3, <3>1, <3>2
  <2>5. e.rev = rev
    BY <2>1
  <2> QED BY <2>4, <2>5 DEF Event
<1> QED BY <1>2, <1>3, RecordedAudited
-----------------------------------------------------------------------------

(* The upgrade writes a record for each project that it takes over.        *)
LEMMA ImportAudited ==
  ASSUME AuditInv, NEW p \in Projects, ImportProject(p)
  PROVE  AuditInv'
<1>1. /\ Inv /\ Inv' /\ Audited(db) /\ db' = db /\ mode = "upgrading" /\ mode' = "upgrading"
      /\ Audited(tx.work)
  BY ImportStep DEF AuditInv, ImportProject
<1>2. PICK d : d = tx.work
  OBVIOUS
<1>3. PICK env : env = ImportEnvelope(p)
  OBVIOUS
<1>4. PICK d2 : d2 = Committed(d, env)
  OBVIOUS
<1>5. /\ Imports(db, d) /\ d \in Database /\ ReceiptsMatch(d) /\ db \in Database
      /\ d.projects[p] = NoRow
  BY <1>1, <1>2 DEF Inv, Imports, Sound, ImportProject
<1>6. PICK row \in ProjectRow : row = db.projects[p]
  BY <1>5, DatabaseTypes DEF ImportProject
<1>7. env \in Envelope /\ env.id = p /\ env.cid = p
  BY <1>3, <1>5, <1>6, ImportEnvelopeTyped
<1>8. d.receipts[p] = NoReceipt
  BY <1>5 DEF Imports
<1>9. d2 = ExecuteProject(d, env) /\ tx'.work = d2
  BY <1>2, <1>3, <1>4, <1>7 DEF Committed, ImportProject
<1>10. d2 \in Database
  BY <1>1, <1>9 DEF Inv, Imports
<1>11. Audited(d2)
  BY <1>1, <1>2, <1>4, <1>5, <1>7, <1>8, <1>10, CommittedAudited
<1> QED BY <1>1, <1>9, <1>11 DEF AuditInv

(* Recovery writes a record for each effect that it converts.              *)
LEMMA RecoverAudited ==
  ASSUME AuditInv, NEW a \in Actions, RecoverEffect(a)
  PROVE  AuditInv'
<1>1. /\ Inv' /\ Audited(db) /\ db' = db /\ mode = "recovering" /\ Sound(tx.work)
      /\ tx.now \in Clock /\ a \in Started(tx.work) /\ Audited(tx.work)
  BY RecoverEffectStep DEF AuditInv, RecoverEffect, Inv
<1>2. PICK cid \in RecoveryIds :
        /\ tx.work.receipts[cid] = NoReceipt
        /\ IF EffectPermits(tx.work, RecoveryEnvelope(a, cid))
           THEN /\ tx' = [work |-> ExecuteEffect(tx.work, RecoveryEnvelope(a, cid)),
                          now |-> tx.now]
                /\ mode' = mode
           ELSE tx' = NoTx /\ mode' = "failed"
  BY DEF RecoverEffect
<1>3. PICK env \in Envelope : /\ env = RecoveryEnvelope(a, cid)
                              /\ env.id = a /\ env.cid = cid
  BY <1>1, RecoveryEnvelopeTyped DEF Sound
<1>4. CASE EffectPermits(tx.work, env)
  <2>1. PICK d2 : d2 = Committed(tx.work, env)
    OBVIOUS
  <2>2. a \notin Projects
    BY StoreAssumption
  <2>3. mode' = "recovering" /\ tx'.work = d2
    BY <1>1, <1>2, <1>3, <1>4, <2>1, <2>2 DEF Committed
  <2>4. d2 \in Database
    BY <1>1, <2>3 DEF Inv, Sound
  <2>5. Audited(d2)
    BY <1>1, <1>2, <1>3, <2>1, <2>4, CommittedAudited DEF Sound
  <2> QED BY <1>1, <2>3, <2>5 DEF AuditInv
<1>5. CASE ~EffectPermits(tx.work, env)
  <2>1. mode' = "failed"
    BY <1>2, <1>3, <1>5
  <2> QED BY <1>1, <2>1 DEF AuditInv
<1> QED BY <1>4, <1>5

(* Every other step changes no event, no receipt and no record, or installs*)
(* a working copy.                                                         *)
LEMMA AuditStep ==
  ASSUME AuditInv, [Next]_vars
  PROVE  AuditInv'
<1>1. Inv /\ Inv' /\ Audited(db)
  BY StepInv DEF AuditInv
<1>2. CASE BeginUpgrade
  <2>1. db' = db /\ mode' = "upgrading" /\ tx'.work = EmptyDatabase
    BY <1>2 DEF BeginUpgrade
  <2>2. EmptyDatabase.events = <<>> /\ EmptyDatabase.audit = <<>>
    BY DEF EmptyDatabase
  <2>3. \A c : RecordsOf(EmptyDatabase, c) = {}
    BY <2>2 DEF RecordsOf
  <2>4. Audited(EmptyDatabase)
    BY <2>2, <2>3 DEF Audited
  <2> QED BY <1>1, <2>1, <2>4 DEF AuditInv
<1>3. ASSUME NEW p \in Projects, ImportProject(p)
      PROVE  AuditInv'
  BY <1>3, ImportAudited
<1>4. CASE CommitUpgrade
  <2>1. mode = "upgrading" /\ mode' \in {"opening", "refused"}
    BY <1>4 DEF CommitUpgrade
  <2>2. db' = db \/ db' = tx.work
    BY <1>4 DEF CommitUpgrade
  <2> QED BY <1>1, <2>1, <2>2 DEF AuditInv
<1>5. CASE StartOpen \/ Crash
  <2>1. db' = db /\ mode' \in {"opening", "closed", "unmigrated"}
    BY <1>5 DEF StartOpen, Crash, Closed
  <2> QED BY <1>1, <2>1 DEF AuditInv
<1>6. CASE VerifyAndRepair
  <2>1. mode' \in {"verified", "failed"} /\ (db' = db \/ db' = Rebuilt(db))
    BY <1>6 DEF VerifyAndRepair
  <2>2. Audited(db')
    BY <1>1, <2>1, RebuiltAudited DEF Inv, Sound
  <2> QED BY <1>1, <2>1, <2>2 DEF AuditInv
<1>7. CASE BeginRecovery
  <2>1. db' = db /\ \E now \in Clock : tx' = [work |-> db, now |-> now]
    BY <1>7 DEF BeginRecovery
  <2>2. tx'.work = db
    BY <2>1
  <2> QED BY <1>1, <2>1, <2>2 DEF AuditInv
<1>8. ASSUME NEW a \in Actions, RecoverEffect(a)
      PROVE  AuditInv'
  BY <1>8, RecoverAudited
<1>9. CASE CommitRecovery
  <2>1. db' = tx.work /\ mode = "recovering" /\ mode' = "open"
    BY <1>9 DEF CommitRecovery
  <2> QED BY <1>1, <2>1 DEF AuditInv
<1>10. ASSUME NEW env \in ClientEnvelopes, Execute(env)
       PROVE  AuditInv'
  <2>1. mode = "open" /\ mode' = "open" /\ Sound(db)
    BY <1>1, <1>10 DEF Execute, Inv
  <2>2. CASE Outcome(db, env) = "committed"
    <3>1. PICK d2 : d2 = Committed(db, env) /\ db' = d2
      BY <1>10, <2>2 DEF Execute
    <3>2. db.receipts[env.cid] = NoReceipt
      BY <2>2, Zenon DEF Outcome
    <3>3. env \in Envelope /\ d2 \in Database
      BY <1>1, <3>1, ClientEnvelopesTyped DEF Inv, Sound
    <3>4. Audited(d2)
      BY <1>1, <2>1, <3>1, <3>2, <3>3, CommittedAudited DEF Sound
    <3> QED BY <1>1, <2>1, <3>1, <3>4 DEF AuditInv
  <2>3. CASE Outcome(db, env) # "committed"
    <3>1. db' = db
      BY <1>10, <2>3 DEF Execute
    <3> QED BY <1>1, <2>1, <3>1 DEF AuditInv
  <2> QED BY <2>2, <2>3
<1>11. CASE Damage
  <2>1. mode' = "closed" /\ db' \in StaleProjections(db) \cup OverwrittenFields(db)
    BY <1>11 DEF Damage
  <2>2. db'.events = db.events /\ db'.receipts = db.receipts /\ db'.audit = db.audit
    BY <2>1 DEF StaleProjections, OverwrittenFields, WithProjections
  <2>3. Audited(db')
    BY <1>1, <2>2 DEF Audited, RecordsOf
  <2> QED BY <1>1, <2>1, <2>3 DEF AuditInv
<1>12. CASE UNCHANGED vars
  BY <1>1, <1>12 DEF AuditInv, vars
<1> QED BY <1>2, <1>3, <1>4, <1>5, <1>6, <1>7, <1>8, <1>9, <1>10, <1>11, <1>12 DEF Next

(* Every committed event, those of imports and recoveries included, has    *)
(* exactly one audit record, of its class, and every record of a command   *)
(* belongs to one that committed.                                          *)
THEOREM Audits ==
  Spec => []AuditComplete
<1>1. Init => AuditInv
  <2> SUFFICES ASSUME Init PROVE AuditInv
    OBVIOUS
  <2>1. db.events = <<>> /\ db.audit = <<>> /\ mode = "unmigrated"
    BY DEF Init, EmptyDatabase
  <2>2. \A c : RecordsOf(db, c) = {}
    BY <2>1 DEF RecordsOf
  <2>3. Audited(db)
    BY <2>1, <2>2 DEF Audited
  <2> QED BY <2>1, <2>3, InitInv DEF AuditInv
<1>2. AuditInv /\ [Next]_vars => AuditInv'
  BY AuditStep
<1>3. AuditInv => AuditComplete
  BY DEF AuditInv, Audited, RecordsOf, AuditComplete
<1> QED BY <1>1, <1>2, <1>3, PTL DEF Spec

-----------------------------------------------------------------------------
(* Damage to the ledger.                                                   *)

(* The startup check fixes each receipt: its event says what it must be.   *)
LEMMA ReceiptIsFixed ==
  ASSUME NEW d \in Database, LedgerVerifies(d), NEW c \in CommandIds, d.receipts[c] # NoReceipt,
         NEW d2, LedgerVerifies(d2), d2.events = d.events,
         d2.receipts[c] \in Receipt \cup {NoReceipt}
  PROVE  d2.receipts[c] = d.receipts[c]
<1>1. PICK ev : ev = d.events
  OBVIOUS
<1>2. PICK r : r = d.receipts[c]
  OBVIOUS
<1>3. PICK r2 : r2 = d2.receipts[c]
  OBVIOUS
<1>4. r \in Receipt
  BY <1>2, DatabaseTypes
<1>5. {i \in 1..Len(ev) : ev[i].req.cid = c} = {r.seq} /\ ev[r.seq] = [rev |-> r.rev, req |-> r.req]
  BY <1>1, <1>2 DEF LedgerVerifies
<1>6. r.seq \in 1..Len(ev) /\ ev[r.seq].req.cid = c
  BY <1>5
<1>7. r2 # NoReceipt
  <2>1. d2.receipts[ev[r.seq].req.cid] # NoReceipt
    BY <1>1, <1>6 DEF LedgerVerifies
  <2> QED BY <1>3, <1>6, <2>1
<1>8. /\ {i \in 1..Len(ev) : ev[i].req.cid = c} = {r2.seq}
      /\ ev[r2.seq] = [rev |-> r2.rev, req |-> r2.req]
  BY <1>1, <1>3, <1>7 DEF LedgerVerifies
<1>9. r2.seq = r.seq
  BY <1>5, <1>8
<1>10. r2.rev = r.rev /\ r2.req = r.req
  <2>1. [rev |-> r2.rev, req |-> r2.req] = [rev |-> r.rev, req |-> r.req]
    BY <1>5, <1>8, <1>9
  <2>2. [rev |-> r2.rev, req |-> r2.req].rev = r2.rev /\ [rev |-> r2.rev, req |-> r2.req].req = r2.req
    OBVIOUS
  <2>3. [rev |-> r.rev, req |-> r.req].rev = r.rev /\ [rev |-> r.rev, req |-> r.req].req = r.req
    OBVIOUS
  <2> QED BY <2>1, <2>2, <2>3
<1>11. r2 \in Receipt
  BY <1>3, <1>7
<1> QED BY <1>2, <1>3, <1>4, <1>9, <1>10, <1>11 DEF Receipt

(* What an attempt to alter a receipt may leave there is a receipt or none.*)
LEMMA AlteredReceiptTypes ==
  ASSUME NEW d \in Database, NEW c \in CommandIds, d.receipts[c] # NoReceipt,
         NEW receipt \in AlteredReceipts(d, c)
  PROVE  receipt \in Receipt \cup {NoReceipt} /\ receipt # d.receipts[c]
<1>1. /\ d.receipts \in [CommandIds -> Receipt \cup {NoReceipt}] /\ Len(d.events) \in Nat
      /\ d.receipts[c] \in Receipt
  BY DatabaseTypes
<1>2. ASSUME NEW n \in 1..(MaxRevision + 1)
      PROVE  [d.receipts[c] EXCEPT !.rev = n] \in Receipt
  <2>1. n \in Nat
    BY StoreAssumption
  <2> QED BY <1>1, <2>1 DEF Receipt
<1>3. ASSUME NEW n \in 1..(Len(d.events) + 1)
      PROVE  [d.receipts[c] EXCEPT !.seq = n] \in Receipt
  <2>1. n \in Nat
    BY <1>1
  <2> QED BY <1>1, <2>1 DEF Receipt
<1>4. \A e \in CommandIds : d.receipts[e] \in Receipt \cup {NoReceipt}
  BY <1>1
<1> QED BY <1>2, <1>3, <1>4, Zenon DEF AlteredReceipts

(* Whatever is altered in a receipt, or in the revision of an event, the   *)
(* next startup notices: receipts and events fix each other.               *)
THEOREM DamageDetected ==
  Spec => []LedgerDamageIsDetected
<1>1. Inv => LedgerDamageIsDetected
  <2> SUFFICES ASSUME Inv PROVE LedgerDamageIsDetected
    OBVIOUS
  <2>1. db \in Database /\ LedgerVerifies(db)
    BY MatchVerifies DEF Inv, Sound
  <2>2. ASSUME NEW c \in CommandIds, db.receipts[c] # NoReceipt,
               NEW receipt \in AlteredReceipts(db, c),
               LedgerVerifies([db EXCEPT !.receipts = [@ EXCEPT ![c] = receipt]])
        PROVE  FALSE
    <3>1. PICK d2 : d2 = [db EXCEPT !.receipts = [@ EXCEPT ![c] = receipt]]
      OBVIOUS
    <3>2. d2.events = db.events /\ d2.receipts[c] = receipt
      BY <2>1, <3>1 DEF Database
    <3>3. receipt \in Receipt \cup {NoReceipt} /\ receipt # db.receipts[c]
      BY <2>1, <2>2, AlteredReceiptTypes
    <3> QED BY <2>1, <2>2, <3>1, <3>2, <3>3, ReceiptIsFixed
  <2>3. ASSUME NEW i \in 1..Len(db.events), NEW n \in 1..(MaxRevision + 1), n # db.events[i].rev,
               LedgerVerifies([db EXCEPT !.events = [@ EXCEPT ![i].rev = n]])
        PROVE  FALSE
    <3>1. PICK d2 : d2 = [db EXCEPT !.events = [@ EXCEPT ![i].rev = n]]
      OBVIOUS
    <3>2. PICK ev \in Seq(Event) : ev = db.events
      BY <2>1, DatabaseTypes
    <3>3. i \in 1..Len(ev) /\ ev[i] \in Event
      BY <3>2
    <3>4. d2.receipts = db.receipts /\ d2.events = [ev EXCEPT ![i].rev = n]
      BY <2>1, <3>1, <3>2 DEF Database
    <3>5. /\ Len(d2.events) = Len(ev) /\ d2.events[i] = [ev[i] EXCEPT !.rev = n]
      BY <3>2, <3>3, <3>4
    <3>6. d2.events[i].req = ev[i].req /\ d2.events[i].rev = n
      BY <3>3, <3>5 DEF Event
    <3>7. PICK c \in CommandIds : c = ev[i].req.cid
      BY <3>3, EventTypes, EnvelopeTypes
    <3>8. db.receipts[c] # NoReceipt
      BY <2>1, <3>2, <3>3, <3>7 DEF LedgerVerifies
    <3>9. PICK r : r = db.receipts[c]
      OBVIOUS
    <3>10. /\ {j \in 1..Len(ev) : ev[j].req.cid = c} = {r.seq}
           /\ ev[r.seq] = [rev |-> r.rev, req |-> r.req]
      BY <2>1, <3>2, <3>8, <3>9 DEF LedgerVerifies
    <3>11. d2.events[r.seq] = [rev |-> r.rev, req |-> r.req]
      BY <2>3, <3>1, <3>4, <3>8, <3>9 DEF LedgerVerifies
    <3>12. r.seq = i
      BY <3>3, <3>7, <3>10
    <3>13. n = r.rev /\ ev[i].rev = r.rev
      BY <3>6, <3>10, <3>11, <3>12
    <3> QED BY <2>3, <3>2, <3>13
  <2> QED BY <2>2, <2>3 DEF LedgerDamageIsDetected
<1> QED BY Invariance, <1>1, PTL

-----------------------------------------------------------------------------
(* The replay as the loop that it is in the code.                          *)

(* What the loop has derived from a log that it has read.                  *)
Derived(ev) ==
  [projects |-> ReplayProjects(ev, Len(ev)), projectCursor |-> LastSequence(ev, Projects),
   effects |-> ReplayEffects(ev, Len(ev)), effectCursor |-> LastSequence(ev, Actions)]

(* One turn of the loop: replay_event applies the event at a sequence      *)
(* number to the row of its aggregate and moves the cursor.                *)
Turn(state, event, seq) ==
  LET x == event.req.id
  IN  IF x \in Projects
      THEN [projects |-> [state.projects EXCEPT ![x] = NextProject(@, event.req, seq)],
            projectCursor |-> seq,
            effects |-> state.effects, effectCursor |-> state.effectCursor]
      ELSE [projects |-> state.projects, projectCursor |-> state.projectCursor,
            effects |-> [state.effects EXCEPT ![x] = NextEffect(@, event.req, seq)],
            effectCursor |-> seq]

(* What it has derived before the first event.                             *)
Nothing ==
  [projects |-> [p \in Projects |-> NoRow], projectCursor |-> 0,
   effects |-> [a \in Actions |-> NoRow], effectCursor |-> 0]

Prefix(ev, n) == SubSeq(ev, 1, n)

(* The first events of a log are a log.                                    *)
LEMMA PrefixTypes ==
  ASSUME NEW ev \in Seq(Event), NEW n \in 0..Len(ev)
  PROVE  /\ Prefix(ev, n) \in Seq(Event) /\ Len(Prefix(ev, n)) = n /\ n \in Nat
         /\ Agree(ev, Prefix(ev, n), n)
BY DEF Prefix, Agree

(* Each prefix is the one before it and one event.                         *)
LEMMA PrefixNext ==
  ASSUME NEW ev \in Seq(Event), NEW n \in 1..Len(ev)
  PROVE  /\ ev[n] \in Event /\ n - 1 \in 0..Len(ev)
         /\ Extends(Prefix(ev, n), Prefix(ev, n - 1), ev[n])
BY DEF Prefix, Extends

(* All events of a log are the log.                                        *)
LEMMA PrefixWhole ==
  ASSUME NEW ev \in Seq(Event)
  PROVE  Prefix(ev, Len(ev)) = ev
BY DEF Prefix

(* Whatever replays, replays up to any of its events.                      *)
LEMMA PrefixApplies ==
  ASSUME NEW ev \in Seq(Event), Applies(ev, Len(ev)), NEW n \in 0..Len(ev)
  PROVE  Applies(Prefix(ev, n), n)
<1>1. PICK evp \in Seq(Event) : evp = Prefix(ev, n) /\ Agree(ev, evp, n) /\ n \in Nat
  BY PrefixTypes
<1>2. ASSUME NEW m \in 0..n, NEW x
      PROVE  /\ ReplayProject(evp, m, x) = ReplayProject(ev, m, x)
             /\ ReplayEffect(evp, m, x) = ReplayEffect(ev, m, x)
  <2>1. \A i \in 1..m : evp[i] = ev[i]
    BY <1>1 DEF Agree
  <2>2. EventsOf(evp, m, x) = EventsOf(ev, m, x)
    BY <2>1 DEF EventsOf
  <2>3. PICK S : S = EventsOf(ev, m, x)
    OBVIOUS
  <2>4. S \in SUBSET (1..n)
    BY <1>1, <2>3 DEF EventsOf
  <2>5. ProjectOf(evp, S) = ProjectOf(ev, S) /\ EffectOf(evp, S) = EffectOf(ev, S)
    BY <1>1, <2>4, ProjectOfAgree, EffectOfAgree
  <2> QED BY <2>2, <2>3, <2>5 DEF ReplayProject, ReplayEffect
<1>3. ASSUME NEW i \in 1..n
      PROVE  EventApplies(evp, i)
  <2>1. evp[i] = ev[i] /\ EventApplies(ev, i) /\ i \in 0..n /\ i - 1 \in 0..n
    BY <1>1, <1>3 DEF Agree, Applies
  <2>2. /\ \A x : ReplayProject(evp, i, x) = ReplayProject(ev, i, x)
        /\ \A x : ReplayProject(evp, i - 1, x) = ReplayProject(ev, i - 1, x)
        /\ \A x : ReplayEffect(evp, i, x) = ReplayEffect(ev, i, x)
        /\ \A x : ReplayEffect(evp, i - 1, x) = ReplayEffect(ev, i - 1, x)
    BY <1>2, <2>1
  <2> QED BY <2>1, <2>2 DEF EventApplies
<1> QED BY <1>1, <1>3 DEF Applies

(* In a log that replays, one event more is one turn of the loop more.     *)
LEMMA TurnDerives ==
  ASSUME NEW ev \in Seq(Event), NEW e \in Event, NEW ev2, Extends(ev2, ev, e),
         Applies(ev, Len(ev)), EventApplies(ev2, Len(ev) + 1)
  PROVE  Derived(ev2) = Turn(Derived(ev), e, Len(ev) + 1)
<1>1. PICK n \in Nat : n = Len(ev) /\ Len(ev2) = n + 1 /\ ev2[n + 1] = e /\ n \in 0..n
  BY ExtendsTypes
<1>2. PICK x : x = e.req.id
  OBVIOUS
<1>3. /\ LastSequence(ev2, Projects) = IF x \in Projects THEN n + 1 ELSE LastSequence(ev, Projects)
      /\ LastSequence(ev2, Actions) = IF x \in Actions THEN n + 1 ELSE LastSequence(ev, Actions)
  BY <1>1, <1>2, LastSequenceNext
<1>4. ASSUME NEW y, y # x
      PROVE  /\ ReplayProject(ev2, n + 1, y) = ReplayProject(ev, n, y)
             /\ ReplayEffect(ev2, n + 1, y) = ReplayEffect(ev, n, y)
  BY <1>1, <1>2, <1>4, ReplayOther
<1>5. /\ ReplayProject(ev2, n, x) = ReplayProject(ev, n, x)
      /\ ReplayEffect(ev2, n, x) = ReplayEffect(ev, n, x)
  BY <1>1, ReplayOld
<1>6. (n + 1) - 1 = n
  OBVIOUS
<1>7. CASE x \in Projects
  <2>1. PICK row : row = ReplayProject(ev, n, x)
    OBVIOUS
  <2>2. ProjectMoves(row, e.req.cmd) /\ e.rev = RevisionAfter(row, e.req.cmd)
    BY <1>1, <1>2, <1>5, <1>6, <1>7, <2>1 DEF EventApplies
  <2>3. ReplayProject(ev2, n + 1, x) = NextProject(row, e.req, n + 1)
    BY <1>1, <1>2, <1>7, <2>1, <2>2, ReplayNewProject
  <2>4. x \notin Actions
    BY <1>7, StoreAssumption
  <2>5. ReplayEffects(ev2, n + 1) = ReplayEffects(ev, n)
    BY <1>4, <2>4 DEF ReplayEffects
  <2>6. ReplayProjects(ev2, n + 1) =
          [ReplayProjects(ev, n) EXCEPT ![x] = NextProject(row, e.req, n + 1)]
    BY <1>4, <1>7, <2>3 DEF ReplayProjects
  <2>7. ReplayProjects(ev, n)[x] = row
    BY <1>7, <2>1 DEF ReplayProjects
  <2>8. Derived(ev2) =
          [projects |-> [ReplayProjects(ev, n) EXCEPT ![x] = NextProject(row, e.req, n + 1)],
           projectCursor |-> n + 1,
           effects |-> ReplayEffects(ev, n), effectCursor |-> LastSequence(ev, Actions)]
    BY <1>1, <1>3, <1>7, <2>4, <2>5, <2>6 DEF Derived
  <2>9. Turn(Derived(ev), e, n + 1) =
          [projects |-> [ReplayProjects(ev, n) EXCEPT ![x] = NextProject(row, e.req, n + 1)],
           projectCursor |-> n + 1,
           effects |-> ReplayEffects(ev, n), effectCursor |-> LastSequence(ev, Actions)]
    BY <1>1, <1>2, <1>7, <2>7 DEF Derived, Turn
  <2> QED BY <1>1, <2>8, <2>9
<1>8. CASE x \notin Projects
  <2>1. PICK row : row = ReplayEffect(ev, n, x)
    OBVIOUS
  <2>2. EffectMoves(row, e.req.cmd) /\ e.rev = Revision(row) + 1
    BY <1>1, <1>2, <1>5, <1>6, <1>8, <2>1 DEF EventApplies
  <2>3. x \in Actions
    BY <1>2, <1>8, EventTypes, EnvelopeTypes DEF Event
  <2>4. ReplayEffect(ev2, n + 1, x) = NextEffect(row, e.req, n + 1)
    BY <1>1, <1>2, <2>1, <2>2, <2>3, ReplayNewEffect
  <2>5. ReplayProjects(ev2, n + 1) = ReplayProjects(ev, n)
    BY <1>4, <1>8 DEF ReplayProjects
  <2>6. ReplayEffects(ev2, n + 1) =
          [ReplayEffects(ev, n) EXCEPT ![x] = NextEffect(row, e.req, n + 1)]
    BY <1>4, <2>3, <2>4 DEF ReplayEffects
  <2>7. ReplayEffects(ev, n)[x] = row
    BY <2>1, <2>3 DEF ReplayEffects
  <2>8. Derived(ev2) =
          [projects |-> ReplayProjects(ev, n), projectCursor |-> LastSequence(ev, Projects),
           effects |-> [ReplayEffects(ev, n) EXCEPT ![x] = NextEffect(row, e.req, n + 1)],
           effectCursor |-> n + 1]
    BY <1>1, <1>3, <1>8, <2>3, <2>5, <2>6 DEF Derived
  <2>9. Turn(Derived(ev), e, n + 1) =
          [projects |-> ReplayProjects(ev, n), projectCursor |-> LastSequence(ev, Projects),
           effects |-> [ReplayEffects(ev, n) EXCEPT ![x] = NextEffect(row, e.req, n + 1)],
           effectCursor |-> n + 1]
    BY <1>1, <1>2, <1>8, <2>7 DEF Derived, Turn
  <2> QED BY <1>1, <2>8, <2>9
<1> QED BY <1>7, <1>8

(* The loop begins with nothing, takes one turn for each event of the log, *)
(* in order, and ends with what the declarative replay says of the log.    *)
ReplayIsALoop ==
  /\ Derived(<<>>) = Nothing
  /\ \A n \in 1..Len(db.events) :
       Derived(Prefix(db.events, n)) = Turn(Derived(Prefix(db.events, n - 1)), db.events[n], n)
  /\ Derived(Prefix(db.events, Len(db.events))) = Derived(db.events)

(* The declarative replay, by which a ledger is judged and projections are *)
(* repaired, is what the loop of replay_derived_state computes, with the   *)
(* very operators that made the rows when the commands were executed.      *)
THEOREM ReplayLoop ==
  Spec => []ReplayIsALoop
<1>1. Derived(<<>>) = Nothing
  <2>1. PICK ev : ev = <<>> /\ Len(ev) = 0
    OBVIOUS
  <2>2. \A x : EventsOf(ev, 0, x) = {}
    BY DEF EventsOf
  <2>3. /\ ReplayProjects(ev, 0) = [p \in Projects |-> NoRow]
        /\ ReplayEffects(ev, 0) = [a \in Actions |-> NoRow]
    BY <2>2 DEF ReplayProjects, ReplayEffects, ReplayProject, ReplayEffect, ProjectOf, EffectOf
  <2>4. LastSequence(ev, Projects) = 0 /\ LastSequence(ev, Actions) = 0
    BY <2>1 DEF LastSequence
  <2> QED BY <2>1, <2>3, <2>4 DEF Derived, Nothing
<1>2. ASSUME NEW ev \in Seq(Event), Applies(ev, Len(ev)), NEW n \in 1..Len(ev)
      PROVE  Derived(Prefix(ev, n)) = Turn(Derived(Prefix(ev, n - 1)), ev[n], n)
  <2>1. PICK evp \in Seq(Event) : evp = Prefix(ev, n - 1) /\ Len(evp) = n - 1
    BY PrefixNext, PrefixTypes
  <2>2. PICK ev2 \in Seq(Event) : ev2 = Prefix(ev, n) /\ Len(ev2) = n
    BY PrefixTypes
  <2>3. Extends(ev2, evp, ev[n]) /\ ev[n] \in Event
    BY <2>1, <2>2, PrefixNext
  <2>4. Applies(evp, Len(evp)) /\ Applies(ev2, n)
    BY <1>2, <2>1, <2>2, PrefixNext, PrefixApplies
  <2>5. Len(evp) + 1 = n
    BY <2>1
  <2>6. EventApplies(ev2, n)
    BY <2>4 DEF Applies
  <2>7. Derived(ev2) = Turn(Derived(evp), ev[n], Len(evp) + 1)
    BY <2>3, <2>4, <2>5, <2>6, TurnDerives
  <2> QED BY <2>1, <2>2, <2>5, <2>7
<1>3. Inv => ReplayIsALoop
  <2> SUFFICES ASSUME Inv PROVE ReplayIsALoop
    OBVIOUS
  <2>1. db.events \in Seq(Event) /\ Applies(db.events, Len(db.events))
    BY DatabaseTypes DEF Inv, Sound
  <2> QED BY <1>1, <1>2, <2>1, PrefixWhole DEF ReplayIsALoop
<1> QED BY Invariance, <1>3, PTL
=============================================================================
