--------------------------- MODULE VeaStoreProofs ---------------------------
(***************************************************************************)
(* Theorems about VeaStore, for every choice of its constants that         *)
(* satisfies StoreAssumption.                                              *)
(*                                                                         *)
(* The argument: replay (what a log makes of a row, declaratively) and     *)
(* execution (what one command makes of a row, incrementally) agree when   *)
(* one event is appended, and an event leaves the rows of all other        *)
(* aggregates alone.  Therefore a command commits into a database whose    *)
(* log replays and whose projections equal the replay, and leaves such a   *)
(* database behind; a rebuild creates one, and damage to the projections   *)
(* cannot touch what the log says.                                         *)
(***************************************************************************)
EXTENDS VeaStore, TLAPS, WellFoundedInduction

-----------------------------------------------------------------------------
(* Positions in a log.                                                     *)

(* A set of numbers that is not empty has a least element.                 *)
LEMMA MinExists ==
  ASSUME NEW S \in SUBSET Nat, S # {}
  PROVE  \E m \in S : \A j \in S : m <= j
<1>1. PICK m \in S : \A j \in S : ~(<<j, m>> \in OpToRel(<, Nat))
  BY NatLessThanWellFounded, WFMin
<1>2. ASSUME NEW j \in S PROVE m <= j
  <2>1. j \in Nat /\ m \in Nat
    OBVIOUS
  <2>2. j < m => <<j, m>> \in OpToRel(<, Nat)
    BY <2>1, Zenon DEF OpToRel
  <2>3. ~(j < m)
    BY <1>1, <2>2
  <2> QED BY <2>1, <2>3
<1> QED BY <1>2

(* A set of positions up to n that is not empty has a greatest element.    *)
LEMMA MaxExists ==
  ASSUME NEW n \in Nat, NEW S \in SUBSET (1..n), S # {}
  PROVE  \E m \in S : \A j \in S : j <= m
<1> DEFINE R == {k \in Nat : n - k \in S}
<1>1. R # {}
  <2>1. PICK s \in S : TRUE OBVIOUS
  <2>2. n - s \in R
     OBVIOUS
  <2> QED BY <2>2
<1>2. PICK m \in R : \A j \in R : m <= j
  <2>1. R \in SUBSET Nat
    OBVIOUS
  <2> HIDE DEF R
  <2> QED BY <2>1, <1>1, MinExists
<1>3. n - m \in S /\ m \in Nat BY <1>2
<1>4. ASSUME NEW j \in S PROVE j <= n - m
  <2>1. n - j \in R /\ j \in 1..n
    OBVIOUS
  <2>2. m <= n - j
    BY <2>1, <1>2
  <2> HIDE DEF R
  <2> QED BY <2>1, <2>2, <1>3
<1> QED BY <1>3, <1>4

(* The choice of the last position is the last position.                   *)
LEMMA LatestIs ==
  ASSUME NEW n \in Nat, NEW S \in SUBSET (1..n), S # {}
  PROVE  Latest(S) \in S /\ \A j \in S : j <= Latest(S)
BY MaxExists DEF Latest

(* The choice of the first position is the first position.                 *)
LEMMA EarliestIs ==
  ASSUME NEW n \in Nat, NEW S \in SUBSET (1..n), S # {}
  PROVE  Earliest(S) \in S /\ \A j \in S : Earliest(S) <= j
<1>1. S \in SUBSET Nat
  OBVIOUS
<1> QED BY <1>1, MinExists DEF Earliest

(* A position after all others is the latest.                              *)
LEMMA LatestNew ==
  ASSUME NEW n \in Nat, NEW S \in SUBSET (1..n)
  PROVE  Latest(S \cup {n + 1}) = n + 1
<1> SUFFICES ASSUME NEW T, T = S \cup {n + 1} PROVE Latest(T) = n + 1
  OBVIOUS
<1>1. T \in SUBSET (1..n + 1) /\ T # {} /\ n + 1 \in Nat /\ n + 1 \in T
  OBVIOUS
<1>2. Latest(T) \in 1..n + 1 /\ n + 1 <= Latest(T)
  BY <1>1, LatestIs
<1> QED BY <1>2

(* A position after all others does not change the earliest one.           *)
LEMMA EarliestOld ==
  ASSUME NEW n \in Nat, NEW S \in SUBSET (1..n), S # {}
  PROVE  Earliest(S \cup {n + 1}) = Earliest(S)
<1> SUFFICES ASSUME NEW T, T = S \cup {n + 1} PROVE Earliest(T) = Earliest(S)
  OBVIOUS
<1>1. T \in SUBSET (1..n + 1) /\ T # {} /\ n + 1 \in Nat
  OBVIOUS
<1>2. Earliest(T) \in T /\ \A j \in T : Earliest(T) <= j
  BY <1>1, EarliestIs
<1>3. Earliest(S) \in S /\ \A j \in S : Earliest(S) <= j
  BY EarliestIs
<1>4. Earliest(T) <= Earliest(S) /\ Earliest(S) \in 1..n
  BY <1>2, <1>3
<1>5. Earliest(T) \in S
  BY <1>2, <1>4
<1>6. Earliest(S) <= Earliest(T) /\ Earliest(T) \in 1..n
  BY <1>3, <1>5
<1> QED BY <1>4, <1>6

-----------------------------------------------------------------------------
(* Types of envelopes and events.                                          *)

(* The fields of an envelope have their types: a command for a project is  *)
(* a project command, any other is a side-effect command.                  *)
LEMMA EnvelopeTypes ==
  ASSUME NEW env \in Envelope
  PROVE  /\ env.cid \in CommandIds /\ env.expected \in Nat /\ env.at \in Nat
         /\ env.id \in Projects => env.cmd \in ProjectCommand
         /\ env.id \notin Projects => env.id \in Actions /\ env.cmd \in EffectCommand
BY StoreAssumption DEF Envelope, EnvelopeOf

(* The fields that each kind of project command carries.                   *)
LEMMA ProjectCommandTypes ==
  ASSUME NEW cmd \in ProjectCommand
  PROVE  /\ cmd.op \in {"create", "import", "set_trust", "set"}
         /\ cmd.op \in {"create", "import"} => /\ cmd.root \in Roots
                                              /\ cmd.settings \in [Settings -> Values]
         /\ cmd.op \in {"import", "set_trust"} => cmd.trust \in Trusts
         /\ cmd.op = "import" => cmd.rev \in Nat /\ cmd.created \in Nat
         /\ cmd.op = "set" => cmd.setting \in Settings /\ cmd.value \in Values
<1>1. CASE cmd \in ClientProjectCommand
  BY <1>1 DEF ClientProjectCommand
<1>2. CASE cmd \in ImportCommand
  BY <1>2 DEF ImportCommand
<1> QED BY <1>1, <1>2 DEF ProjectCommand

(* The fields that each kind of side-effect command carries.               *)
LEMMA EffectCommandTypes ==
  ASSUME NEW cmd \in EffectCommand
  PROVE  /\ cmd.op \in {"authorize", "start", "finish", "mark_unknown"}
         /\ cmd.op = "authorize" => cmd.approval \in Approvals
         /\ cmd.op = "finish" => cmd.result \in Results
BY DEF EffectCommand

(* An event of a log is a revision and the envelope it was made from.      *)
LEMMA EventTypes ==
  ASSUME NEW ev \in Seq(Event), NEW i \in 1..Len(ev)
  PROVE  /\ ev[i] \in Event /\ ev[i].rev \in Nat /\ ev[i].req \in Envelope
         /\ ev[i] = [rev |-> ev[i].rev, req |-> ev[i].req]
<1>1. ev[i] \in Event
  OBVIOUS
<1>2. ASSUME NEW e \in Event
      PROVE  /\ e.rev \in Nat /\ e.req \in Envelope
             /\ e = [rev |-> e.rev, req |-> e.req]
  BY DEF Event
<1> QED BY <1>1, <1>2

(* An event at the end of a log leaves the others where they were.         *)
LEMMA Appended ==
  ASSUME NEW ev \in Seq(Event), NEW e \in Event
  PROVE  /\ Append(ev, e) \in Seq(Event)
         /\ Len(ev) \in Nat
         /\ Len(Append(ev, e)) = Len(ev) + 1
         /\ \A i \in 1..Len(ev) : Append(ev, e)[i] = ev[i]
         /\ Append(ev, e)[Len(ev) + 1] = e
OBVIOUS

(* Logs that agree on their first n events.                                *)
Agree(ev, ev2, n) == \A i \in 1..n : ev2[i] = ev[i]

-----------------------------------------------------------------------------
(* The rows of the first n events are the same in logs that agree on them. *)

(* Logs that agree have the same first and last event of a set of          *)
(* positions.                                                              *)
LEMMA LatestAgree ==
  ASSUME NEW n \in Nat, NEW ev, NEW ev2, Agree(ev, ev2, n),
         NEW T \in SUBSET (1..n), T # {}
  PROVE  ev2[Latest(T)] = ev[Latest(T)] /\ ev2[Earliest(T)] = ev[Earliest(T)]
<1>1. Latest(T) \in 1..n /\ Earliest(T) \in 1..n
  BY LatestIs, EarliestIs
<1> QED BY <1>1 DEF Agree

(* Logs that agree have their events of one kind at the same positions.    *)
LEMMA OfKindAgree ==
  ASSUME NEW n \in Nat, NEW ev, NEW ev2, Agree(ev, ev2, n),
         NEW S \in SUBSET (1..n), NEW op
  PROVE  /\ OfKind(ev2, S, op) = OfKind(ev, S, op)
         /\ OfKind(ev, S, op) \in SUBSET (1..n)
BY DEF OfKind, Agree

(* Logs that agree change a plain field at the same positions.             *)
LEMMA SettingChangesAgree ==
  ASSUME NEW n \in Nat, NEW ev, NEW ev2, Agree(ev, ev2, n),
         NEW S \in SUBSET (1..n), NEW s
  PROVE  /\ SettingChanges(ev2, S, s) = SettingChanges(ev, S, s)
         /\ SettingChanges(ev, S, s) \in SUBSET (1..n)
<1>1. /\ OfKind(ev2, S, "set") = OfKind(ev, S, "set")
      /\ OfKind(ev, S, "set") \in SUBSET (1..n)
  BY OfKindAgree
<1> QED BY <1>1 DEF SettingChanges, Agree

(* Logs that agree make the same project row of a set of positions.        *)
LEMMA ProjectOfAgree ==
  ASSUME NEW n \in Nat, NEW ev, NEW ev2, Agree(ev, ev2, n), NEW S \in SUBSET (1..n)
  PROVE  ProjectOf(ev2, S) = ProjectOf(ev, S)
<1>1. ASSUME S # {} PROVE TrustOf(ev2, S) = TrustOf(ev, S)
  <2> DEFINE T == OfKind(ev, S, "set_trust")
  <2>1. OfKind(ev2, S, "set_trust") = T /\ T \in SUBSET (1..n)
    BY OfKindAgree
  <2>2. T # {} => ev2[Latest(T)] = ev[Latest(T)]
    <3> HIDE DEF T
    <3> QED BY <2>1, LatestAgree
  <2>3. ev2[Earliest(S)] = ev[Earliest(S)]
    BY <1>1, LatestAgree
  <2> QED BY <2>1, <2>2, <2>3 DEF TrustOf
<1>2. CASE S = {}
  BY <1>2 DEF ProjectOf
<1>3. CASE S # {}
  <2>1. ev2[Latest(S)] = ev[Latest(S)] /\ ev2[Earliest(S)] = ev[Earliest(S)]
    BY <1>3, LatestAgree
  <2>2. ASSUME NEW s PROVE SettingOf(ev2, S, s) = SettingOf(ev, S, s)
    <3> DEFINE T == SettingChanges(ev, S, s)
    <3>1. SettingChanges(ev2, S, s) = T /\ T \in SUBSET (1..n)
      BY SettingChangesAgree
    <3>2. T # {} => ev2[Latest(T)] = ev[Latest(T)]
      <4> HIDE DEF T
      <4> QED BY <3>1, LatestAgree
    <3> QED BY <2>1, <3>1, <3>2 DEF SettingOf
  <2>3. [s \in Settings |-> SettingOf(ev2, S, s)] =
        [s \in Settings |-> SettingOf(ev, S, s)]
    BY <2>2
  <2> QED BY <1>1, <1>3, <2>1, <2>3 DEF ProjectOf
<1> QED BY <1>2, <1>3

(* Logs that agree make the same side-effect row of a set of positions.    *)
LEMMA EffectOfAgree ==
  ASSUME NEW n \in Nat, NEW ev, NEW ev2, Agree(ev, ev2, n), NEW S \in SUBSET (1..n)
  PROVE  EffectOf(ev2, S) = EffectOf(ev, S)
<1>1. ASSUME NEW op
      PROVE  /\ OfKind(ev2, S, op) = OfKind(ev, S, op)
             /\ OfKind(ev, S, op) # {} =>
                  ev2[Latest(OfKind(ev, S, op))] = ev[Latest(OfKind(ev, S, op))]
  <2> DEFINE T == OfKind(ev, S, op)
  <2>1. OfKind(ev2, S, op) = T /\ T \in SUBSET (1..n)
    BY OfKindAgree
  <2>2. T # {} => ev2[Latest(T)] = ev[Latest(T)]
    <3> HIDE DEF T
    <3> QED BY <2>1, LatestAgree
  <2> QED BY <2>1, <2>2
<1>2. ASSUME NEW op PROVE TimeOf(ev2, S, op) = TimeOf(ev, S, op)
  BY <1>1 DEF TimeOf
<1>3. ResultOf(ev2, S) = ResultOf(ev, S)
  BY <1>1 DEF ResultOf
<1>4. S # {} => ev2[Latest(S)] = ev[Latest(S)] /\ ev2[Earliest(S)] = ev[Earliest(S)]
  BY LatestAgree
<1> QED BY <1>2, <1>3, <1>4 DEF EffectOf

-----------------------------------------------------------------------------
(* One more event of an aggregate makes of its row what the command makes  *)
(* of it: replay and execution compute the same rows.                      *)

(* The first and the last event after one more event was added.            *)
LEMMA LatestGrown ==
  ASSUME NEW n \in Nat, NEW ev, NEW ev2, Agree(ev, ev2, n), NEW S \in SUBSET (1..n),
         NEW S2, S2 = S \cup {n + 1}
  PROVE  /\ S2 # {}
         /\ Latest(S2) = n + 1
         /\ S # {} => ev2[Earliest(S2)] = ev[Earliest(S)]
         /\ S = {} => Earliest(S2) = n + 1
<1>1. S2 # {} /\ Latest(S2) = n + 1
  BY LatestNew
<1>2. ASSUME S # {} PROVE ev2[Earliest(S2)] = ev[Earliest(S)]
  <2>1. Earliest(S2) = Earliest(S)
    BY <1>2, EarliestOld
  <2> QED BY <1>2, <2>1, LatestAgree
<1>3. ASSUME S = {} PROVE Earliest(S2) = n + 1
  <2>1. S2 = {n + 1} /\ S2 \in SUBSET (1..n + 1) /\ S2 # {} /\ n + 1 \in Nat
    BY <1>3
  <2>2. Earliest(S2) \in S2
    BY <2>1, EarliestIs
  <2> QED BY <2>1, <2>2
<1> QED BY <1>1, <1>2, <1>3

(* The new event joins the events of its own kind and no others.           *)
LEMMA OfKindGrown ==
  ASSUME NEW n \in Nat, NEW ev, NEW ev2, Agree(ev, ev2, n), NEW S \in SUBSET (1..n),
         NEW S2, S2 = S \cup {n + 1}, NEW op
  PROVE  /\ ev2[n + 1].req.cmd.op = op =>
              OfKind(ev2, S2, op) = OfKind(ev, S, op) \cup {n + 1}
         /\ ev2[n + 1].req.cmd.op # op => OfKind(ev2, S2, op) = OfKind(ev, S, op)
BY DEF OfKind, Agree

(* The new event joins the changes of the field it sets and of no other.   *)
LEMMA SettingChangesGrown ==
  ASSUME NEW n \in Nat, NEW ev, NEW ev2, Agree(ev, ev2, n), NEW S \in SUBSET (1..n),
         NEW S2, S2 = S \cup {n + 1}, NEW s
  PROVE  /\ ev2[n + 1].req.cmd.op = "set" /\ ev2[n + 1].req.cmd.setting = s =>
              SettingChanges(ev2, S2, s) = SettingChanges(ev, S, s) \cup {n + 1}
         /\ ~(ev2[n + 1].req.cmd.op = "set" /\ ev2[n + 1].req.cmd.setting = s) =>
              SettingChanges(ev2, S2, s) = SettingChanges(ev, S, s)
<1>1. /\ ev2[n + 1].req.cmd.op = "set" =>
           OfKind(ev2, S2, "set") = OfKind(ev, S, "set") \cup {n + 1}
      /\ ev2[n + 1].req.cmd.op # "set" => OfKind(ev2, S2, "set") = OfKind(ev, S, "set")
  BY OfKindGrown
<1>2. OfKind(ev, S, "set") \in SUBSET (1..n)
  BY OfKindAgree
<1>3. \A i \in OfKind(ev, S, "set") : ev2[i] = ev[i]
  BY <1>2 DEF Agree
<1> QED BY <1>1, <1>2, <1>3 DEF SettingChanges

(* Trust after one more event: what a set_trust event says, else as        *)
(* before.                                                                 *)
LEMMA TrustOfGrown ==
  ASSUME NEW n \in Nat, NEW ev, NEW ev2, Agree(ev, ev2, n), NEW S \in SUBSET (1..n),
         S # {}, NEW S2, S2 = S \cup {n + 1}, NEW cmd, cmd = ev2[n + 1].req.cmd
  PROVE  /\ cmd.op = "set_trust" =>
              TrustOf(ev2, S2) = cmd.trust
         /\ cmd.op # "set_trust" => TrustOf(ev2, S2) = TrustOf(ev, S)
<1> DEFINE T == OfKind(ev, S, "set_trust")
           T2 == OfKind(ev2, S2, "set_trust")
<1>1. T \in SUBSET (1..n)
  BY OfKindAgree
<1>2. /\ cmd.op = "set_trust" => T2 = T \cup {n + 1}
      /\ cmd.op # "set_trust" => T2 = T
  BY DEF OfKind, Agree
<1>3. /\ T2 = T \cup {n + 1} => T2 # {} /\ Latest(T2) = n + 1
      /\ T # {} => ev2[Latest(T)] = ev[Latest(T)]
  <2> HIDE DEF T, T2
  <2>1. T2 = T \cup {n + 1} => T2 # {} /\ Latest(T2) = n + 1
    BY <1>1, LatestGrown
  <2>2. T # {} => ev2[Latest(T)] = ev[Latest(T)]
    BY <1>1, LatestAgree
  <2> QED BY <2>1, <2>2
<1>4. ev2[Earliest(S2)] = ev[Earliest(S)]
  BY LatestGrown
<1> QED BY <1>2, <1>3, <1>4 DEF TrustOf

(* A field after one more event: what a set event says of it, else as      *)
(* before.                                                                 *)
LEMMA SettingOfGrown ==
  ASSUME NEW n \in Nat, NEW ev, NEW ev2, Agree(ev, ev2, n), NEW S \in SUBSET (1..n),
         NEW S2, S2 = S \cup {n + 1}, S # {}, NEW s,
         NEW cmd, cmd = ev2[n + 1].req.cmd
  PROVE  /\ cmd.op = "set" /\ cmd.setting = s => SettingOf(ev2, S2, s) = cmd.value
         /\ ~(cmd.op = "set" /\ cmd.setting = s) =>
              SettingOf(ev2, S2, s) = SettingOf(ev, S, s)
<1> DEFINE T == SettingChanges(ev, S, s)
           T2 == SettingChanges(ev2, S2, s)
<1>1. T \in SUBSET (1..n)
  BY SettingChangesAgree
<1>2. /\ cmd.op = "set" /\ cmd.setting = s => T2 = T \cup {n + 1}
      /\ ~(cmd.op = "set" /\ cmd.setting = s) => T2 = T
  BY SettingChangesGrown
<1>3. /\ T2 = T \cup {n + 1} => T2 # {} /\ Latest(T2) = n + 1
      /\ T # {} => ev2[Latest(T)] = ev[Latest(T)]
  <2> HIDE DEF T, T2
  <2>1. T2 = T \cup {n + 1} => T2 # {} /\ Latest(T2) = n + 1
    BY <1>1, LatestGrown
  <2>2. T # {} => ev2[Latest(T)] = ev[Latest(T)]
    BY <1>1, LatestAgree
  <2> QED BY <2>1, <2>2
<1>4. ev2[Earliest(S2)] = ev[Earliest(S)]
  BY LatestGrown
<1> QED BY <1>2, <1>3, <1>4 DEF SettingOf

(* The first event of a project, a create or an import, makes the row that *)
(* the command makes.                                                      *)
LEMMA ProjectOfBorn ==
  ASSUME NEW n \in Nat, NEW ev2, NEW S2, S2 = {n + 1}, NEW env, NEW row,
         env = ev2[n + 1].req, env.cmd \in ProjectCommand,
         env.cmd.op \in {"create", "import"}, ev2[n + 1].rev = RevisionAfter(NoRow, env.cmd)
  PROVE  ProjectOf(ev2, S2) = NextProject(row, env, n + 1)
<1>1. env.cmd.settings \in [Settings -> Values]
  BY ProjectCommandTypes
<1>2. S2 # {} /\ Latest(S2) = n + 1 /\ Earliest(S2) = n + 1
  <2>1. {} \in SUBSET (1..n) /\ S2 = {} \cup {n + 1} /\ Agree(ev2, ev2, n)
    BY DEF Agree
  <2> QED BY <2>1, LatestGrown
<1>3. \A op : env.cmd.op # op => OfKind(ev2, S2, op) = {}
  BY DEF OfKind
<1>4. TrustOf(ev2, S2) = BirthTrust(env.cmd)
  BY <1>2, <1>3 DEF TrustOf
<1>5. \A s : SettingOf(ev2, S2, s) = env.cmd.settings[s]
  BY <1>2, <1>3 DEF SettingOf, SettingChanges
<1>6. [s \in Settings |-> SettingOf(ev2, S2, s)] = env.cmd.settings
  BY <1>1, <1>5
<1>7. ProjectOf(ev2, S2) =
        [rev |-> RevisionAfter(NoRow, env.cmd), trust |-> BirthTrust(env.cmd),
         root |-> env.cmd.root, settings |-> env.cmd.settings,
         created |-> BirthTime(env), updated |-> env.at, seq |-> n + 1]
  BY <1>2, <1>4, <1>6, Zenon DEF ProjectOf
<1>8. CASE env.cmd.op = "create"
  <2>1. /\ RevisionAfter(NoRow, env.cmd) = 1 /\ BirthTrust(env.cmd) = "untrusted"
        /\ BirthTime(env) = env.at
    BY <1>8 DEF RevisionAfter, Revision, BirthTrust, BirthTime
  <2>2. NextProject(row, env, n + 1) = Created(env.cmd, env, n + 1)
    BY <1>8, Zenon DEF NextProject
  <2> QED BY <1>7, <2>1, <2>2, Zenon DEF Created
<1>9. CASE env.cmd.op = "import"
  <2>1. /\ RevisionAfter(NoRow, env.cmd) = env.cmd.rev
        /\ BirthTrust(env.cmd) = env.cmd.trust /\ BirthTime(env) = env.cmd.created
    BY <1>9 DEF RevisionAfter, BirthTrust, BirthTime
  <2>2. NextProject(row, env, n + 1) = Imported(env.cmd, env, n + 1)
    BY <1>9, Zenon DEF NextProject
  <2> QED BY <1>7, <2>1, <2>2, Zenon DEF Imported
<1> QED BY <1>8, <1>9

(* Replaying one more event of an existing project does to its row what    *)
(* NextProject does.                                                       *)
LEMMA ProjectOfGrown ==
  ASSUME NEW n \in Nat, NEW ev, NEW ev2, Agree(ev, ev2, n), NEW S \in SUBSET (1..n),
         NEW S2, S2 = S \cup {n + 1}, S # {}, NEW env, NEW row,
         env = ev2[n + 1].req, env.cmd \in ProjectCommand,
         env.cmd.op \notin {"create", "import"}, row = ProjectOf(ev, S), ev2[n + 1].rev = row.rev + 1
  PROVE  ProjectOf(ev2, S2) = NextProject(row, env, n + 1)
<1> DEFINE settings == [s \in Settings |-> SettingOf(ev, S, s)]
           settings2 == [s \in Settings |-> SettingOf(ev2, S2, s)]
<1>1. S2 # {} /\ Latest(S2) = n + 1 /\ ev2[Earliest(S2)] = ev[Earliest(S)]
  <2>1. S2 # {} /\ Latest(S2) = n + 1
    BY LatestGrown
  <2>2. ev2[Earliest(S2)] = ev[Earliest(S)]
    BY LatestGrown
  <2> QED BY <2>1, <2>2
<1>2. /\ env.cmd.op = "set_trust" => TrustOf(ev2, S2) = env.cmd.trust
      /\ env.cmd.op # "set_trust" => TrustOf(ev2, S2) = TrustOf(ev, S)
  BY TrustOfGrown
<1>3. ASSUME NEW s
      PROVE  /\ env.cmd.op = "set" /\ env.cmd.setting = s =>
                  SettingOf(ev2, S2, s) = env.cmd.value
             /\ ~(env.cmd.op = "set" /\ env.cmd.setting = s) =>
                  SettingOf(ev2, S2, s) = SettingOf(ev, S, s)
  BY SettingOfGrown
<1>4. /\ env.cmd.op \in {"set_trust", "set"}
      /\ env.cmd.op = "set" => env.cmd.setting \in Settings
  BY ProjectCommandTypes
<1>5. /\ env.cmd.op # "set" => settings2 = settings
      /\ env.cmd.op = "set" =>
           settings2 = [settings EXCEPT ![env.cmd.setting] = env.cmd.value]
  BY <1>3, <1>4
<1>6. /\ row.trust = TrustOf(ev, S) /\ row.settings = settings
      /\ row.root = ev[Earliest(S)].req.cmd.root
      /\ row.created = BirthTime(ev[Earliest(S)].req)
  BY DEF ProjectOf
<1>7. ProjectOf(ev2, S2) =
        [rev |-> row.rev + 1, trust |-> TrustOf(ev2, S2), root |-> row.root,
         settings |-> settings2, created |-> row.created,
         updated |-> env.at, seq |-> n + 1]
  BY <1>1, <1>6, Zenon DEF ProjectOf
<1> HIDE DEF settings, settings2
<1>8. CASE env.cmd.op = "set_trust"
  <2>1. TrustOf(ev2, S2) = env.cmd.trust /\ settings2 = row.settings
    BY <1>2, <1>5, <1>6, <1>8
  <2>2. NextProject(row, env, n + 1) =
          Revised(row, env.cmd.trust, row.settings, env.at, n + 1)
    BY <1>8, Zenon DEF NextProject
  <2> QED BY <1>7, <2>1, <2>2, Zenon DEF Revised
<1>9. CASE env.cmd.op = "set"
  <2>1. /\ TrustOf(ev2, S2) = row.trust
        /\ settings2 = [row.settings EXCEPT ![env.cmd.setting] = env.cmd.value]
    BY <1>2, <1>5, <1>6, <1>9
  <2>2. NextProject(row, env, n + 1) =
          Revised(row, row.trust,
                  [row.settings EXCEPT ![env.cmd.setting] = env.cmd.value], env.at, n + 1)
    BY <1>9, Zenon DEF NextProject
  <2> QED BY <1>7, <2>1, <2>2, Zenon DEF Revised
<1> QED BY <1>4, <1>8, <1>9

(* A time column after one more event.                                     *)
LEMMA TimeOfGrown ==
  ASSUME NEW n \in Nat, NEW ev, NEW ev2, Agree(ev, ev2, n), NEW S \in SUBSET (1..n),
         NEW S2, S2 = S \cup {n + 1}, NEW op
  PROVE  TimeOf(ev2, S2, op) =
           IF ev2[n + 1].req.cmd.op = op THEN ev2[n + 1].req.at ELSE TimeOf(ev, S, op)
<1> DEFINE T == OfKind(ev, S, op)
           T2 == OfKind(ev2, S2, op)
<1>1. T \in SUBSET (1..n)
  BY OfKindAgree
<1>2. /\ ev2[n + 1].req.cmd.op = op => T2 = T \cup {n + 1}
      /\ ev2[n + 1].req.cmd.op # op => T2 = T
  BY OfKindGrown
<1>3. /\ T2 = T \cup {n + 1} => T2 # {} /\ Latest(T2) = n + 1
      /\ T # {} => ev2[Latest(T)] = ev[Latest(T)]
  <2> HIDE DEF T, T2
  <2>1. T2 = T \cup {n + 1} => T2 # {} /\ Latest(T2) = n + 1
    BY <1>1, LatestGrown
  <2>2. T # {} => ev2[Latest(T)] = ev[Latest(T)]
    BY <1>1, LatestAgree
  <2> QED BY <2>1, <2>2
<1> QED BY <1>2, <1>3 DEF TimeOf

(* The result column after one more event.                                 *)
LEMMA ResultOfGrown ==
  ASSUME NEW n \in Nat, NEW ev, NEW ev2, Agree(ev, ev2, n), NEW S \in SUBSET (1..n),
         NEW S2, S2 = S \cup {n + 1}
  PROVE  ResultOf(ev2, S2) =
           IF ev2[n + 1].req.cmd.op = "finish" THEN ev2[n + 1].req.cmd.result
                                               ELSE ResultOf(ev, S)
<1> DEFINE T == OfKind(ev, S, "finish")
           T2 == OfKind(ev2, S2, "finish")
<1>1. T \in SUBSET (1..n)
  BY OfKindAgree
<1>2. /\ ev2[n + 1].req.cmd.op = "finish" => T2 = T \cup {n + 1}
      /\ ev2[n + 1].req.cmd.op # "finish" => T2 = T
  BY DEF OfKind, Agree
<1>3. /\ T2 = T \cup {n + 1} => T2 # {} /\ Latest(T2) = n + 1
      /\ T # {} => ev2[Latest(T)] = ev[Latest(T)]
  <2> HIDE DEF T, T2
  <2>1. T2 = T \cup {n + 1} => T2 # {} /\ Latest(T2) = n + 1
    BY <1>1, LatestGrown
  <2>2. T # {} => ev2[Latest(T)] = ev[Latest(T)]
    BY <1>1, LatestAgree
  <2> QED BY <2>1, <2>2
<1> QED BY <1>2, <1>3 DEF ResultOf

(* The phase each kind of command leads to.                                *)
LEMMA PhaseAfterCases ==
  /\ PhaseAfter("authorize") = "authorized"
  /\ PhaseAfter("start") = "started"
  /\ PhaseAfter("finish") = "finished"
  /\ PhaseAfter("mark_unknown") = "unknown"
BY Zenon DEF PhaseAfter

(* The first event of an effect, an authorize, makes the row that          *)
(* authorize makes.                                                        *)
LEMMA EffectOfBorn ==
  ASSUME NEW n \in Nat, NEW ev2, NEW S2, S2 = {n + 1}, NEW env, NEW row,
         env = ev2[n + 1].req, env.cmd.op = "authorize", ev2[n + 1].rev = 1
  PROVE  EffectOf(ev2, S2) = NextEffect(row, env, n + 1)
<1>1. S2 # {} /\ Latest(S2) = n + 1 /\ Earliest(S2) = n + 1
  <2>1. {} \in SUBSET (1..n) /\ S2 = {} \cup {n + 1} /\ Agree(ev2, ev2, n)
    BY DEF Agree
  <2> QED BY <2>1, LatestGrown
<1>2. \A op : env.cmd.op # op => OfKind(ev2, S2, op) = {}
  BY DEF OfKind
<1>3. /\ TimeOf(ev2, S2, "start") = NoTime /\ TimeOf(ev2, S2, "finish") = NoTime
      /\ ResultOf(ev2, S2) = NoResult
  BY <1>2 DEF TimeOf, ResultOf
<1>4. PhaseAfter(ev2[Latest(S2)].req.cmd.op) = "authorized"
  BY <1>1, PhaseAfterCases
<1>5. EffectOf(ev2, S2) = Authorized(env.cmd, env, n + 1)
  BY <1>1, <1>3, <1>4, Zenon DEF EffectOf, Authorized
<1> QED BY <1>5, Zenon DEF NextEffect

(* Replaying one more event of an existing effect does to its row what     *)
(* NextEffect does, if the effect moves as it may.                         *)
LEMMA EffectOfGrown ==
  ASSUME NEW n \in Nat, NEW ev, NEW ev2, Agree(ev, ev2, n), NEW S \in SUBSET (1..n),
         NEW S2, S2 = S \cup {n + 1}, S # {}, NEW env, NEW row,
         env = ev2[n + 1].req, env.cmd \in EffectCommand, env.cmd.op # "authorize",
         row = EffectOf(ev, S), ev2[n + 1].rev = row.rev + 1
  PROVE  EffectOf(ev2, S2) = NextEffect(row, env, n + 1)
<1>1. S2 # {} /\ Latest(S2) = n + 1 /\ ev2[Earliest(S2)] = ev[Earliest(S)]
  <2>1. S2 # {} /\ Latest(S2) = n + 1
    BY LatestGrown
  <2>2. ev2[Earliest(S2)] = ev[Earliest(S)]
    BY LatestGrown
  <2> QED BY <2>1, <2>2
<1>2. \A op : TimeOf(ev2, S2, op) = IF env.cmd.op = op THEN env.at ELSE TimeOf(ev, S, op)
  BY TimeOfGrown
<1>3. ResultOf(ev2, S2) =
        IF env.cmd.op = "finish" THEN env.cmd.result ELSE ResultOf(ev, S)
  BY ResultOfGrown
<1>4. env.cmd.op \in {"start", "finish", "mark_unknown"}
  BY EffectCommandTypes
<1>5. /\ row.result = ResultOf(ev, S)
      /\ row.started = TimeOf(ev, S, "start") /\ row.finished = TimeOf(ev, S, "finish")
      /\ row.approval = ev[Earliest(S)].req.cmd.approval
      /\ row.authorized = ev[Earliest(S)].req.at
  BY DEF EffectOf
<1>6. EffectOf(ev2, S2) =
        Advanced(row, PhaseAfter(env.cmd.op), ResultOf(ev2, S2), TimeOf(ev2, S2, "start"),
                 TimeOf(ev2, S2, "finish"), env.at, n + 1)
  BY <1>1, <1>5, Zenon DEF EffectOf, Advanced
<1>7. CASE env.cmd.op = "start"
  <2>1. /\ TimeOf(ev2, S2, "start") = env.at /\ TimeOf(ev2, S2, "finish") = row.finished
        /\ ResultOf(ev2, S2) = row.result
    BY <1>2, <1>3, <1>5, <1>7
  <2> QED BY <1>6, <1>7, <2>1, PhaseAfterCases, Zenon DEF NextEffect
<1>8. CASE env.cmd.op = "finish"
  <2>1. /\ TimeOf(ev2, S2, "start") = row.started /\ TimeOf(ev2, S2, "finish") = env.at
        /\ ResultOf(ev2, S2) = env.cmd.result
    BY <1>2, <1>3, <1>5, <1>8
  <2> QED BY <1>6, <1>8, <2>1, PhaseAfterCases, Zenon DEF NextEffect
<1>9. CASE env.cmd.op = "mark_unknown"
  <2>1. /\ TimeOf(ev2, S2, "start") = row.started
        /\ TimeOf(ev2, S2, "finish") = row.finished /\ ResultOf(ev2, S2) = row.result
    BY <1>2, <1>3, <1>5, <1>9
  <2> QED BY <1>6, <1>9, <2>1, PhaseAfterCases, Zenon DEF NextEffect
<1> QED BY <1>4, <1>7, <1>8, <1>9

-----------------------------------------------------------------------------
(* Rows replayed from a log whose events apply are rows of the tables.     *)

Applies(ev, n) == \A i \in 1..n : EventApplies(ev, i)

(* The events of an aggregate among the first m are positions of the log.  *)
LEMMA EventsOfTypes ==
  ASSUME NEW ev \in Seq(Event), NEW m \in 0..Len(ev), NEW x
  PROVE  /\ m \in Nat /\ EventsOf(ev, m, x) \in SUBSET (1..m)
         /\ EventsOf(ev, m, x) \in SUBSET (1..Len(ev))
         /\ \A i \in EventsOf(ev, m, x) : ev[i].req.id = x
BY DEF EventsOf

(* Before the first event of an aggregate it has none.                     *)
LEMMA FirstEvent ==
  ASSUME NEW ev \in Seq(Event), NEW m \in 0..Len(ev), NEW x, EventsOf(ev, m, x) # {}
  PROVE  \E i \in 1..m : /\ i = Earliest(EventsOf(ev, m, x)) /\ ev[i].req.id = x
                         /\ EventsOf(ev, i - 1, x) = {}
<1> SUFFICES ASSUME NEW S, S = EventsOf(ev, m, x)
             PROVE  \E i \in 1..m : /\ i = Earliest(S) /\ ev[i].req.id = x
                                    /\ EventsOf(ev, i - 1, x) = {}
  OBVIOUS
<1>1. S \in SUBSET (1..m) /\ m \in Nat /\ S # {}
  BY EventsOfTypes
<1>2. PICK i \in S : i = Earliest(S) /\ \A j \in S : i <= j
  BY <1>1, EarliestIs
<1>3. i \in 1..m /\ ev[i].req.id = x
  BY <1>1, EventsOfTypes
<1>4. ASSUME NEW j \in 1..(i - 1) PROVE ev[j].req.id # x
  <2>1. j \in 1..m /\ ~(i <= j)
    BY <1>1, <1>3
  <2>2. j \notin S
    BY <1>2, <2>1
  <2> QED BY <2>1, <2>2 DEF EventsOf
<1>5. EventsOf(ev, i - 1, x) = {}
  BY <1>4 DEF EventsOf
<1> QED BY <1>2, <1>3, <1>5

(* In a log that replays, the first event of a project creates or imports  *)
(* it.                                                                     *)
LEMMA ProjectBirth ==
  ASSUME NEW ev \in Seq(Event), NEW m \in 0..Len(ev), NEW p \in Projects,
         Applies(ev, m), EventsOf(ev, m, p) # {}
  PROVE  ev[Earliest(EventsOf(ev, m, p))].req.cmd.op \in {"create", "import"}
<1>1. PICK i \in 1..m : /\ i = Earliest(EventsOf(ev, m, p)) /\ ev[i].req.id = p
                        /\ EventsOf(ev, i - 1, p) = {}
  BY FirstEvent
<1>2. ReplayProject(ev, i - 1, p) = NoRow
  BY <1>1 DEF ReplayProject, ProjectOf
<1>3. ProjectMoves(NoRow, ev[i].req.cmd)
  BY <1>1, <1>2 DEF Applies, EventApplies
<1> QED BY <1>1, <1>3 DEF ProjectMoves

(* In a log that replays, the first event of an effect authorizes it.      *)
LEMMA EffectBirth ==
  ASSUME NEW ev \in Seq(Event), NEW m \in 0..Len(ev), NEW a \in Actions,
         Applies(ev, m), EventsOf(ev, m, a) # {}
  PROVE  ev[Earliest(EventsOf(ev, m, a))].req.cmd.op = "authorize"
<1>1. PICK i \in 1..m : /\ i = Earliest(EventsOf(ev, m, a)) /\ ev[i].req.id = a
                        /\ EventsOf(ev, i - 1, a) = {}
  BY FirstEvent
<1>2. ReplayEffect(ev, i - 1, a) = NoRow
  BY <1>1 DEF ReplayEffect, EffectOf
<1>3. a \notin Projects
  BY StoreAssumption
<1>4. EffectMoves(NoRow, ev[i].req.cmd)
  BY <1>1, <1>2, <1>3 DEF Applies, EventApplies
<1> QED BY <1>1, <1>4 DEF EffectMoves

(* The last event of one kind is a position of the log and of that kind.   *)
LEMMA OfKindTypes ==
  ASSUME NEW n \in Nat, NEW ev, NEW S \in SUBSET (1..n), NEW op, OfKind(ev, S, op) # {}
  PROVE  Latest(OfKind(ev, S, op)) \in OfKind(ev, S, op)
<1> DEFINE T == OfKind(ev, S, op)
<1>1. T \in SUBSET (1..n) /\ T # {}
  BY DEF OfKind
<1> HIDE DEF T
<1>2. Latest(T) \in T
  BY <1>1, LatestIs
<1> QED BY <1>2 DEF T

(* The row that a log which replays makes of a project is a project row.   *)
LEMMA ProjectRowTyped ==
  ASSUME NEW ev \in Seq(Event), NEW m \in 0..Len(ev), NEW p \in Projects,
         Applies(ev, m), EventsOf(ev, m, p) # {}
  PROVE  ReplayProject(ev, m, p) \in ProjectRow
<1> DEFINE S == EventsOf(ev, m, p)
<1>1. S \in SUBSET (1..m) /\ m \in Nat
  BY EventsOfTypes
<1>2. ASSUME NEW i \in S
      PROVE  /\ ev[i].rev \in Nat /\ ev[i].req.at \in Nat
             /\ ev[i].req.cmd \in ProjectCommand
  <2>1. i \in 1..Len(ev) /\ ev[i].req.id = p
    BY EventsOfTypes
  <2> QED BY <2>1, EventTypes, EnvelopeTypes
<1>3. Latest(S) \in S /\ Earliest(S) \in S
  <2>1. S # {}
    OBVIOUS
  <2> HIDE DEF S
  <2> QED BY <1>1, <2>1, LatestIs, EarliestIs
<1>4. /\ ev[Earliest(S)].req.cmd.root \in Roots
      /\ ev[Earliest(S)].req.cmd.settings \in [Settings -> Values]
      /\ BirthTrust(ev[Earliest(S)].req.cmd) \in Trusts
      /\ BirthTime(ev[Earliest(S)].req) \in Nat
  <2>1. PICK req : req = ev[Earliest(S)].req
    OBVIOUS
  <2>2. /\ req.cmd \in ProjectCommand /\ req.cmd.op \in {"create", "import"}
        /\ req.at \in Nat
    BY <1>2, <1>3, <2>1, ProjectBirth
  <2>3. /\ req.cmd.root \in Roots /\ req.cmd.settings \in [Settings -> Values]
        /\ req.cmd.op = "import" => req.cmd.trust \in Trusts /\ req.cmd.created \in Nat
    BY <2>2, ProjectCommandTypes
  <2> QED BY <2>1, <2>2, <2>3 DEF BirthTrust, BirthTime, Trusts
<1> HIDE DEF S
<1>5. TrustOf(ev, S) \in Trusts
  <2>1. CASE OfKind(ev, S, "set_trust") = {}
    BY <1>4, <2>1 DEF TrustOf
  <2>2. CASE OfKind(ev, S, "set_trust") # {}
    <3>0. Latest(OfKind(ev, S, "set_trust")) \in OfKind(ev, S, "set_trust")
      BY <1>1, <2>2, OfKindTypes
    <3>1. /\ Latest(OfKind(ev, S, "set_trust")) \in S
          /\ ev[Latest(OfKind(ev, S, "set_trust"))].req.cmd.op = "set_trust"
      BY <3>0 DEF OfKind
    <3>2. ev[Latest(OfKind(ev, S, "set_trust"))].req.cmd.trust \in Trusts
      BY <1>2, <3>1, ProjectCommandTypes
    <3> QED BY <2>2, <3>1, <3>2 DEF TrustOf
  <2> QED BY <2>1, <2>2
<1>6. ASSUME NEW s \in Settings PROVE SettingOf(ev, S, s) \in Values
  <2> DEFINE T == SettingChanges(ev, S, s)
  <2>1. CASE T = {}
    BY <2>1, <1>4 DEF SettingOf
  <2>2. CASE T # {}
    <3>1. T \in SUBSET (1..m)
      BY <1>1 DEF SettingChanges, OfKind
    <3>2. Latest(T) \in T
      <4> HIDE DEF T
      <4> QED BY <1>1, <2>2, <3>1, LatestIs
    <3>3. Latest(T) \in S /\ ev[Latest(T)].req.cmd.op = "set"
      BY <3>2 DEF SettingChanges, OfKind
    <3>4. ev[Latest(T)].req.cmd.value \in Values
      BY <1>2, <3>3, ProjectCommandTypes
    <3> QED BY <2>2, <3>4 DEF SettingOf
  <2> QED BY <2>1, <2>2
<1>7. [s \in Settings |-> SettingOf(ev, S, s)] \in [Settings -> Values]
  BY <1>6
<1>8. ReplayProject(ev, m, p) =
        [rev |-> ev[Latest(S)].rev, trust |-> TrustOf(ev, S),
         root |-> ev[Earliest(S)].req.cmd.root,
         settings |-> [s \in Settings |-> SettingOf(ev, S, s)],
         created |-> BirthTime(ev[Earliest(S)].req),
         updated |-> ev[Latest(S)].req.at, seq |-> Latest(S)]
  BY DEF ReplayProject, ProjectOf, S
<1>9. Latest(S) \in Nat
  <2>1. \A i \in S : i \in Nat
    BY <1>1
  <2> QED BY <1>3, <2>1
<1> QED BY <1>2, <1>3, <1>4, <1>5, <1>7, <1>8, <1>9 DEF ProjectRow

(* The row that a log which replays makes of an effect is a side-effect    *)
(* row.                                                                    *)
LEMMA EffectRowTyped ==
  ASSUME NEW ev \in Seq(Event), NEW m \in 0..Len(ev), NEW a \in Actions,
         Applies(ev, m), EventsOf(ev, m, a) # {}
  PROVE  ReplayEffect(ev, m, a) \in EffectRow
<1> DEFINE S == EventsOf(ev, m, a)
<1>1. S \in SUBSET (1..m) /\ m \in Nat
  BY EventsOfTypes
<1>2. ASSUME NEW i \in S
      PROVE  /\ ev[i].rev \in Nat /\ ev[i].req.at \in Nat
             /\ ev[i].req.cmd \in EffectCommand
  <2>1. i \in 1..Len(ev) /\ ev[i].req.id = a /\ a \notin Projects
    BY EventsOfTypes, StoreAssumption
  <2> QED BY <2>1, EventTypes, EnvelopeTypes
<1>3. Latest(S) \in S /\ Earliest(S) \in S
  <2>1. S # {}
    OBVIOUS
  <2> HIDE DEF S
  <2> QED BY <1>1, <2>1, LatestIs, EarliestIs
<1>4. ev[Earliest(S)].req.cmd.approval \in Approvals
  BY <1>2, <1>3, EffectBirth, EffectCommandTypes
<1> HIDE DEF S
<1>5. ASSUME NEW op PROVE TimeOf(ev, S, op) \in Nat \cup {NoTime}
  <2>1. CASE OfKind(ev, S, op) = {}
    BY <2>1 DEF TimeOf
  <2>2. CASE OfKind(ev, S, op) # {}
    <3>0. Latest(OfKind(ev, S, op)) \in OfKind(ev, S, op)
      BY <1>1, <2>2, OfKindTypes
    <3>1. Latest(OfKind(ev, S, op)) \in S
      BY <3>0 DEF OfKind
    <3> QED BY <1>2, <2>2, <3>1 DEF TimeOf
  <2> QED BY <2>1, <2>2
<1>6. ResultOf(ev, S) \in Results \cup {NoResult}
  <2>1. CASE OfKind(ev, S, "finish") = {}
    BY <2>1 DEF ResultOf
  <2>2. CASE OfKind(ev, S, "finish") # {}
    <3>0. Latest(OfKind(ev, S, "finish")) \in OfKind(ev, S, "finish")
      BY <1>1, <2>2, OfKindTypes
    <3>1. /\ Latest(OfKind(ev, S, "finish")) \in S
          /\ ev[Latest(OfKind(ev, S, "finish"))].req.cmd.op = "finish"
      BY <3>0 DEF OfKind
    <3>2. ev[Latest(OfKind(ev, S, "finish"))].req.cmd.result \in Results
      BY <1>2, <3>1, EffectCommandTypes
    <3> QED BY <2>2, <3>1, <3>2 DEF ResultOf
  <2> QED BY <2>1, <2>2
<1>7. PhaseAfter(ev[Latest(S)].req.cmd.op) \in Phases
  BY <1>2, <1>3, EffectCommandTypes, PhaseAfterCases DEF Phases
<1>8. ReplayEffect(ev, m, a) =
        [rev |-> ev[Latest(S)].rev, phase |-> PhaseAfter(ev[Latest(S)].req.cmd.op),
         result |-> ResultOf(ev, S), approval |-> ev[Earliest(S)].req.cmd.approval,
         authorized |-> ev[Earliest(S)].req.at,
         started |-> TimeOf(ev, S, "start"), finished |-> TimeOf(ev, S, "finish"),
         updated |-> ev[Latest(S)].req.at, seq |-> Latest(S)]
  BY DEF ReplayEffect, EffectOf, S
<1>9. Latest(S) \in Nat
  <2>1. \A i \in S : i \in Nat
    BY <1>1
  <2> QED BY <1>3, <2>1
<1> QED BY <1>2, <1>3, <1>4, <1>5, <1>6, <1>7, <1>8, <1>9 DEF EffectRow

-----------------------------------------------------------------------------
(* Replay is incremental: an event at the end of a log turns the row of    *)
(* its aggregate into what its command makes of it, and leaves the others. *)

Extends(ev2, ev, e) == ev2 = Append(ev, e)

(* An extended log agrees with the log it extends.                         *)
LEMMA AppendAgrees ==
  ASSUME NEW ev \in Seq(Event), NEW e \in Event, NEW ev2, Extends(ev2, ev, e)
  PROVE  Agree(ev, ev2, Len(ev)) /\ ev2[Len(ev) + 1] = e /\ Len(ev) \in Nat
BY Appended DEF Agree, Extends

(* The new event belongs to its own aggregate and to no other.             *)
LEMMA EventsOfAppend ==
  ASSUME NEW ev \in Seq(Event), NEW e \in Event, NEW ev2, Extends(ev2, ev, e), NEW x
  PROVE  /\ \A m \in 0..Len(ev) : EventsOf(ev2, m, x) = EventsOf(ev, m, x)
         /\ e.req.id = x =>
              EventsOf(ev2, Len(ev) + 1, x) = EventsOf(ev, Len(ev), x) \cup {Len(ev) + 1}
         /\ e.req.id # x =>
              EventsOf(ev2, Len(ev) + 1, x) = EventsOf(ev, Len(ev), x)
BY AppendAgrees DEF EventsOf, Agree

(* Replaying a part of the old log is not affected by a later event.       *)
LEMMA ReplayOld ==
  ASSUME NEW ev \in Seq(Event), NEW e \in Event, NEW ev2, Extends(ev2, ev, e), NEW x,
         NEW m \in 0..Len(ev)
  PROVE  /\ ReplayProject(ev2, m, x) = ReplayProject(ev, m, x)
         /\ ReplayEffect(ev2, m, x) = ReplayEffect(ev, m, x)
<1>1. EventsOf(ev2, m, x) = EventsOf(ev, m, x)
  BY EventsOfAppend
<1>2. EventsOf(ev, m, x) \in SUBSET (1..Len(ev))
  BY EventsOfTypes
<1>3. /\ ProjectOf(ev2, EventsOf(ev, m, x)) = ProjectOf(ev, EventsOf(ev, m, x))
      /\ EffectOf(ev2, EventsOf(ev, m, x)) = EffectOf(ev, EventsOf(ev, m, x))
  BY <1>2, AppendAgrees, ProjectOfAgree, EffectOfAgree
<1> QED BY <1>1, <1>3 DEF ReplayProject, ReplayEffect

(* An event leaves the rows of the other aggregates as they are.           *)
LEMMA ReplayOther ==
  ASSUME NEW ev \in Seq(Event), NEW e \in Event, NEW ev2, Extends(ev2, ev, e), NEW x,
         e.req.id # x
  PROVE  /\ ReplayProject(ev2, Len(ev) + 1, x) = ReplayProject(ev, Len(ev), x)
         /\ ReplayEffect(ev2, Len(ev) + 1, x) = ReplayEffect(ev, Len(ev), x)
<1>1. EventsOf(ev2, Len(ev) + 1, x) = EventsOf(ev, Len(ev), x)
  BY EventsOfAppend
<1>2. EventsOf(ev, Len(ev), x) \in SUBSET (1..Len(ev))
  BY DEF EventsOf
<1>3. /\ ProjectOf(ev2, EventsOf(ev, Len(ev), x)) = ProjectOf(ev, EventsOf(ev, Len(ev), x))
      /\ EffectOf(ev2, EventsOf(ev, Len(ev), x)) = EffectOf(ev, EventsOf(ev, Len(ev), x))
  BY <1>2, AppendAgrees, ProjectOfAgree, EffectOfAgree
<1> QED BY <1>1, <1>3 DEF ReplayProject, ReplayEffect

(* A permitted project command, replayed from the log, yields the row that *)
(* execute_project stored.                                                 *)
LEMMA ReplayNewProject ==
  ASSUME NEW ev \in Seq(Event), NEW e \in Event, NEW ev2, Extends(ev2, ev, e),
         Applies(ev, Len(ev)), NEW p \in Projects, e.req.id = p, NEW row,
         row = ReplayProject(ev, Len(ev), p), ProjectMoves(row, e.req.cmd),
         e.rev = RevisionAfter(row, e.req.cmd)
  PROVE  ReplayProject(ev2, Len(ev) + 1, p) = NextProject(row, e.req, Len(ev) + 1)
<1>1. PICK n \in Nat : n = Len(ev)
  BY AppendAgrees
<1>2. PICK S : S = EventsOf(ev, n, p)
  OBVIOUS
<1>3. PICK S2 : S2 = EventsOf(ev2, n + 1, p)
  OBVIOUS
<1>4. S \in SUBSET (1..n) /\ S2 = S \cup {n + 1}
  <2>1. S \in SUBSET (1..n)
    BY <1>2 DEF EventsOf
  <2>2. S2 = S \cup {n + 1}
    BY <1>1, <1>2, <1>3, EventsOfAppend
  <2> QED BY <2>1, <2>2
<1>5. Agree(ev, ev2, n) /\ ev2[n + 1] = e
  BY <1>1, AppendAgrees
<1>6. e.req.cmd \in ProjectCommand
  <2>1. e.req \in Envelope
    BY DEF Event
  <2> QED BY <2>1, EnvelopeTypes
<1>7. row = ProjectOf(ev, S) /\ ReplayProject(ev2, n + 1, p) = ProjectOf(ev2, S2)
  BY <1>1, <1>2, <1>3 DEF ReplayProject
<1>8. CASE S = {}
  <2>1. row = NoRow
    BY <1>7, <1>8 DEF ProjectOf
  <2>2. e.req.cmd.op \in {"create", "import"} /\ e.rev = RevisionAfter(NoRow, e.req.cmd)
    BY <2>1 DEF ProjectMoves
  <2>3. S2 = {n + 1}
    BY <1>4, <1>8
  <2>4. PICK env : env = e.req
    OBVIOUS
  <2>5. /\ env = ev2[n + 1].req /\ env.cmd \in ProjectCommand
        /\ env.cmd.op \in {"create", "import"}
        /\ ev2[n + 1].rev = RevisionAfter(NoRow, env.cmd)
    BY <1>5, <1>6, <2>2, <2>4
  <2>6. ProjectOf(ev2, S2) = NextProject(row, env, n + 1)
    BY <2>3, <2>5, ProjectOfBorn
  <2> QED BY <1>1, <1>7, <2>4, <2>6
<1>9. CASE S # {}
  <2>1. row \in ProjectRow
    <3>1. Len(ev) \in 0..Len(ev)
      BY <1>1
    <3> QED BY <1>1, <1>2, <1>9, <3>1, ProjectRowTyped
  <2>2. row # NoRow
    BY <2>1, StoreAssumption
  <2>3. e.req.cmd.op \notin {"create", "import"} /\ e.rev = row.rev + 1
    BY <2>2 DEF ProjectMoves, RevisionAfter, Revision
  <2>4. PICK env : env = e.req
    OBVIOUS
  <2>5. /\ env = ev2[n + 1].req /\ env.cmd \in ProjectCommand
        /\ env.cmd.op \notin {"create", "import"} /\ ev2[n + 1].rev = row.rev + 1
    BY <1>5, <1>6, <2>3, <2>4
  <2>6. ProjectOf(ev2, S2) = NextProject(row, env, n + 1)
    <3>1. row = ProjectOf(ev, S) /\ Agree(ev, ev2, n) /\ S \in SUBSET (1..n) /\ S # {}
      BY <1>4, <1>5, <1>7, <1>9
    <3>2. S2 = S \cup {n + 1}
      BY <1>4
    <3> QED BY <2>5, <3>1, <3>2, ProjectOfGrown
  <2> QED BY <1>1, <1>7, <2>4, <2>6
<1> QED BY <1>8, <1>9

(* A permitted side-effect command, replayed from the log, yields the row  *)
(* that execute_side_effect stored.                                        *)
LEMMA ReplayNewEffect ==
  ASSUME NEW ev \in Seq(Event), NEW e \in Event, NEW ev2, Extends(ev2, ev, e),
         Applies(ev, Len(ev)), NEW a \in Actions, e.req.id = a, NEW row,
         row = ReplayEffect(ev, Len(ev), a), EffectMoves(row, e.req.cmd),
         e.rev = Revision(row) + 1
  PROVE  ReplayEffect(ev2, Len(ev) + 1, a) = NextEffect(row, e.req, Len(ev) + 1)
<1>1. PICK n \in Nat : n = Len(ev)
  BY AppendAgrees
<1>2. PICK S : S = EventsOf(ev, n, a)
  OBVIOUS
<1>3. PICK S2 : S2 = EventsOf(ev2, n + 1, a)
  OBVIOUS
<1>4. S \in SUBSET (1..n) /\ S2 = S \cup {n + 1}
  <2>1. S \in SUBSET (1..n)
    BY <1>2 DEF EventsOf
  <2>2. S2 = S \cup {n + 1}
    BY <1>1, <1>2, <1>3, EventsOfAppend
  <2> QED BY <2>1, <2>2
<1>5. Agree(ev, ev2, n) /\ ev2[n + 1] = e
  BY <1>1, AppendAgrees
<1>6. e.req.cmd \in EffectCommand
  <2>1. e.req \in Envelope /\ a \notin Projects
    BY StoreAssumption DEF Event
  <2> QED BY <2>1, EnvelopeTypes
<1>7. row = EffectOf(ev, S) /\ ReplayEffect(ev2, n + 1, a) = EffectOf(ev2, S2)
  BY <1>1, <1>2, <1>3 DEF ReplayEffect
<1>8. CASE S = {}
  <2>1. row = NoRow
    BY <1>7, <1>8 DEF EffectOf
  <2>2. e.req.cmd.op = "authorize" /\ e.rev = 1
    BY <2>1 DEF EffectMoves, Revision
  <2>3. S2 = {n + 1}
    BY <1>4, <1>8
  <2>4. PICK env : env = e.req
    OBVIOUS
  <2>5. env = ev2[n + 1].req /\ env.cmd.op = "authorize" /\ ev2[n + 1].rev = 1
    BY <1>5, <2>2, <2>4
  <2>6. EffectOf(ev2, S2) = NextEffect(row, env, n + 1)
    BY <2>3, <2>5, EffectOfBorn
  <2> QED BY <1>1, <1>7, <2>4, <2>6
<1>9. CASE S # {}
  <2>1. row \in EffectRow
    <3>1. Len(ev) \in 0..Len(ev)
      BY <1>1
    <3> QED BY <1>1, <1>2, <1>9, <3>1, EffectRowTyped
  <2>2. row # NoRow
    BY <2>1, StoreAssumption
  <2>3. e.req.cmd.op # "authorize" /\ e.rev = row.rev + 1
    BY <2>2 DEF EffectMoves, Revision
  <2>4. PICK env : env = e.req
    OBVIOUS
  <2>5. env = ev2[n + 1].req /\ env.cmd \in EffectCommand /\ env.cmd.op # "authorize"
        /\ ev2[n + 1].rev = row.rev + 1
    BY <1>5, <1>6, <2>3, <2>4
  <2>6. EffectOf(ev2, S2) = NextEffect(row, env, n + 1)
    BY <1>4, <1>5, <1>7, <1>9, <2>5, EffectOfGrown
  <2> QED BY <1>1, <1>7, <2>4, <2>6
<1> QED BY <1>8, <1>9

(* An extended log is a log, one event longer.                             *)
LEMMA ExtendsTypes ==
  ASSUME NEW ev \in Seq(Event), NEW e \in Event, NEW ev2, Extends(ev2, ev, e)
  PROVE  /\ ev2 \in Seq(Event) /\ Len(ev) \in Nat /\ Len(ev2) = Len(ev) + 1
         /\ \A i \in 1..Len(ev) : ev2[i] = ev[i]
         /\ ev2[Len(ev) + 1] = e
         /\ \A i \in 1..Len(ev2) : i \in 1..Len(ev) \/ i = Len(ev) + 1
BY Appended DEF Extends

(* A log that replays still does after an event that applies.              *)
LEMMA AppliesNext ==
  ASSUME NEW ev \in Seq(Event), NEW e \in Event, NEW ev2, Extends(ev2, ev, e),
         Applies(ev, Len(ev)), EventApplies(ev2, Len(ev) + 1)
  PROVE  Applies(ev2, Len(ev2))
<1> SUFFICES ASSUME NEW i \in 1..Len(ev2) PROVE EventApplies(ev2, i)
  BY DEF Applies
<1>1. i \in 1..Len(ev) \/ i = Len(ev) + 1
  BY ExtendsTypes
<1>2. ASSUME i \in 1..Len(ev) PROVE EventApplies(ev2, i)
  <2>1. i \in 0..Len(ev) /\ i - 1 \in 0..Len(ev)
    BY <1>2, ExtendsTypes
  <2>2. ev2[i] = ev[i] /\ EventApplies(ev, i)
    BY <1>2, ExtendsTypes DEF Applies
  <2>3. \A x : /\ ReplayProject(ev2, i, x) = ReplayProject(ev, i, x)
               /\ ReplayEffect(ev2, i, x) = ReplayEffect(ev, i, x)
               /\ ReplayProject(ev2, i - 1, x) = ReplayProject(ev, i - 1, x)
               /\ ReplayEffect(ev2, i - 1, x) = ReplayEffect(ev, i - 1, x)
    BY <2>1, ReplayOld
  <2> QED BY <2>2, <2>3 DEF EventApplies
<1> QED BY <1>1, <1>2

(* A new event moves the cursor of its own projection to the end of the    *)
(* log and leaves the other cursor where it was.                           *)
LEMMA LastSequenceNext ==
  ASSUME NEW ev \in Seq(Event), NEW e \in Event, NEW ev2, Extends(ev2, ev, e), NEW ids
  PROVE  /\ e.req.id \in ids => LastSequence(ev2, ids) = Len(ev) + 1
         /\ e.req.id \notin ids => LastSequence(ev2, ids) = LastSequence(ev, ids)
<1>1. PICK S : S = {i \in 1..Len(ev) : ev[i].req.id \in ids}
  OBVIOUS
<1>2. PICK S2 : S2 = {i \in 1..Len(ev2) : ev2[i].req.id \in ids}
  OBVIOUS
<1>3. PICK n \in Nat : n = Len(ev)
  BY ExtendsTypes
<1>4. S \in SUBSET (1..n)
  BY <1>1, <1>3
<1>5. \A i : i \in S2 <=> i \in S \/ (i = n + 1 /\ e.req.id \in ids)
  <2>1. \A i \in 1..n : ev2[i].req.id \in ids <=> ev[i].req.id \in ids
    BY <1>3, ExtendsTypes
  <2>2. ev2[n + 1].req.id \in ids <=> e.req.id \in ids
    BY <1>3, ExtendsTypes
  <2>3. \A i : i \in 1..Len(ev2) <=> i \in 1..n \/ i = n + 1
    BY <1>3, ExtendsTypes
  <2> QED BY <1>1, <1>2, <1>3, <2>1, <2>2, <2>3
<1>6. /\ LastSequence(ev, ids) = IF S = {} THEN 0 ELSE Latest(S)
      /\ LastSequence(ev2, ids) = IF S2 = {} THEN 0 ELSE Latest(S2)
  BY <1>1, <1>2 DEF LastSequence
<1>7. ASSUME e.req.id \in ids PROVE LastSequence(ev2, ids) = Len(ev) + 1
  <2>1. S2 = S \cup {n + 1}
    BY <1>5, <1>7
  <2>2. S2 # {} /\ Latest(S2) = n + 1
    BY <1>4, <2>1, LatestNew
  <2> QED BY <1>3, <1>6, <2>2
<1>8. ASSUME e.req.id \notin ids PROVE LastSequence(ev2, ids) = LastSequence(ev, ids)
  <2>1. S2 = S
    BY <1>5, <1>8
  <2> QED BY <1>6, <2>1
<1> QED BY <1>7, <1>8

(* A cursor is a natural number.                                           *)
LEMMA LastSequenceTypes ==
  ASSUME NEW ev \in Seq(Event), NEW ids
  PROVE  LastSequence(ev, ids) \in Nat
<1>1. PICK S : S = {i \in 1..Len(ev) : ev[i].req.id \in ids}
  OBVIOUS
<1>2. PICK n \in Nat : n = Len(ev)
  OBVIOUS
<1>3. S \in SUBSET (1..n)
  BY <1>1, <1>2
<1>4. S # {} => Latest(S) \in S
  BY <1>3, LatestIs
<1>5. LastSequence(ev, ids) = IF S = {} THEN 0 ELSE Latest(S)
  BY <1>1 DEF LastSequence
<1>6. \A i \in S : i \in Nat
  BY <1>3
<1> QED BY <1>4, <1>5, <1>6

-----------------------------------------------------------------------------
(* Sound databases, and what a transaction of `execute` makes of them.     *)

ReceiptsMatch(d) ==
  /\ \A i \in 1..Len(d.events) :
       d.receipts[d.events[i].req.cid] =
         [req |-> d.events[i].req, rev |-> d.events[i].rev, seq |-> i]
  /\ \A c \in CommandIds : d.receipts[c] # NoReceipt =>
       \E i \in 1..Len(d.events) : d.events[i].req.cid = c

Sound(d) ==
  /\ d \in Database
  /\ ReceiptsMatch(d)
  /\ Applies(d.events, Len(d.events))
  /\ RootsDistinct(ReplayProjects(d.events, Len(d.events)))

(* The tables of a database have their types.                              *)
LEMMA DatabaseTypes ==
  ASSUME NEW d \in Database
  PROVE  /\ d.events \in Seq(Event) /\ Len(d.events) \in Nat
         /\ d.receipts \in [CommandIds -> Receipt \cup {NoReceipt}]
         /\ d.audit \in Seq(Audit)
         /\ d.projects \in [Projects -> ProjectRow \cup {NoRow}]
         /\ d.projectCursor \in Nat
         /\ d.effects \in [Actions -> EffectRow \cup {NoRow}]
         /\ d.effectCursor \in Nat
BY DEF Database

(* Every command has an audit class.                                       *)
LEMMA AuditClassTypes ==
  ASSUME NEW env \in Envelope
  PROVE  AuditClass(env.cmd) \in AuditClasses
<1>1. CASE env.id \in Projects
  <2>1. env.cmd.op \in {"create", "import", "set_trust", "set"}
    BY <1>1, EnvelopeTypes, ProjectCommandTypes
  <2>2. AuditClass(env.cmd) = "succeeded"
    BY <2>1, Zenon DEF AuditClass
  <2> QED BY <2>2 DEF AuditClasses, Results
<1>2. CASE env.id \notin Projects
  <2>1. /\ env.cmd.op \in {"authorize", "start", "finish", "mark_unknown"}
        /\ env.cmd.op = "finish" => env.cmd.result \in Results
    BY <1>2, EnvelopeTypes, EffectCommandTypes
  <2>2. /\ env.cmd.op = "authorize" => AuditClass(env.cmd) = "authorized"
        /\ env.cmd.op = "start" => AuditClass(env.cmd) = "started"
        /\ env.cmd.op = "finish" => AuditClass(env.cmd) = env.cmd.result
        /\ env.cmd.op = "mark_unknown" => AuditClass(env.cmd) = "unknown"
    BY Zenon DEF AuditClass
  <2> QED BY <2>1, <2>2 DEF AuditClasses
<1> QED BY <1>1, <1>2

(* The ledger half of a transaction.                                       *)
LEMMA RecordedSound ==
  ASSUME NEW d \in Database, ReceiptsMatch(d), NEW env \in Envelope, NEW rev \in Nat,
         d.receipts[env.cid] = NoReceipt, NEW d2,
         d2.events = Recorded(d, env, rev).events,
         d2.receipts = Recorded(d, env, rev).receipts
  PROVE  /\ [rev |-> rev, req |-> env] \in Event
         /\ Extends(d2.events, d.events, [rev |-> rev, req |-> env])
         /\ d2.receipts \in [CommandIds -> Receipt \cup {NoReceipt}]
         /\ Recorded(d, env, rev).audit \in Seq(Audit)
         /\ ReceiptsMatch(d2)
<1>1. PICK e : e = [rev |-> rev, req |-> env]
  OBVIOUS
<1>2. e \in Event /\ e.req = env /\ e.rev = rev
  BY <1>1 DEF Event
<1>3. d2.events = Append(d.events, e)
  BY <1>1 DEF Recorded
<1>4. Extends(d2.events, d.events, e)
  BY <1>3 DEF Extends
<1>5. PICK n \in Nat : n = Len(d.events)
  BY DatabaseTypes
<1>6. PICK r \in Receipt : r = [req |-> env, rev |-> rev, seq |-> n + 1]
  <2>1. [req |-> env, rev |-> rev, seq |-> n + 1] \in Receipt
    BY DEF Receipt
  <2> QED BY <2>1
<1>7. d2.receipts = [d.receipts EXCEPT ![env.cid] = r]
  BY <1>5, <1>6 DEF Recorded
<1>8. env.cid \in CommandIds
  BY EnvelopeTypes
<1>9. d2.receipts \in [CommandIds -> Receipt \cup {NoReceipt}]
  BY <1>6, <1>7, <1>8, DatabaseTypes
<1>10. /\ d2.receipts[env.cid] = r
       /\ \A c \in CommandIds : c # env.cid => d2.receipts[c] = d.receipts[c]
  BY <1>7, <1>8, DatabaseTypes
<1>11. Recorded(d, env, rev).audit \in Seq(Audit)
  <2>1. [cid |-> env.cid, class |-> AuditClass(env.cmd)] \in Audit
    BY <1>8, AuditClassTypes DEF Audit
  <2>2. d.audit \in Seq(Audit)
    BY DatabaseTypes
  <2>3. Recorded(d, env, rev).audit =
          Append(d.audit, [cid |-> env.cid, class |-> AuditClass(env.cmd)])
    BY DEF Recorded
  <2> QED BY <2>1, <2>2, <2>3
<1>12. PICK ev \in Seq(Event) : ev = d.events
  BY DatabaseTypes
<1>13. PICK ev2 : ev2 = d2.events
  OBVIOUS
<1>14. /\ Len(ev2) = n + 1 /\ ev2[n + 1] = e
       /\ \A i \in 1..n : ev2[i] = ev[i]
       /\ \A i \in 1..Len(ev2) : i \in 1..n \/ i = n + 1
  BY <1>2, <1>4, <1>5, <1>12, <1>13, ExtendsTypes
<1>15. ASSUME NEW i \in 1..Len(ev2)
       PROVE  d2.receipts[ev2[i].req.cid] = [req |-> ev2[i].req, rev |-> ev2[i].rev, seq |-> i]
  <2>1. CASE i = n + 1
    BY <1>2, <1>6, <1>10, <1>14, <2>1
  <2>2. CASE i \in 1..n
    <3>1. d.receipts[ev[i].req.cid] = [req |-> ev[i].req, rev |-> ev[i].rev, seq |-> i]
      BY <1>5, <1>12, <2>2 DEF ReceiptsMatch
    <3>2. ev[i].rev \in Nat /\ ev[i].req \in Envelope /\ i \in Nat
      <4>1. i \in 1..Len(ev) /\ i \in Nat
        BY <1>5, <1>12, <2>2
      <4> QED BY <4>1, EventTypes
    <3>3. d.receipts[ev[i].req.cid] \in Receipt
      BY <3>1, <3>2 DEF Receipt
    <3>4. ev[i].req.cid # env.cid /\ ev[i].req.cid \in CommandIds
      BY <3>2, <3>3, StoreAssumption, EnvelopeTypes
    <3> QED BY <1>10, <1>14, <2>2, <3>1, <3>4
  <2> QED BY <1>14, <2>1, <2>2
<1>16. ASSUME NEW c \in CommandIds, d2.receipts[c] # NoReceipt
       PROVE  \E i \in 1..Len(ev2) : ev2[i].req.cid = c
  <2>1. CASE c = env.cid
    <3>1. n + 1 \in 1..Len(ev2) /\ ev2[n + 1].req.cid = c
      BY <1>2, <1>14, <2>1
    <3> QED BY <3>1
  <2>2. CASE c # env.cid
    <3>1. PICK i \in 1..n : ev[i].req.cid = c
      BY <1>5, <1>10, <1>12, <1>16, <2>2 DEF ReceiptsMatch
    <3>2. i \in 1..Len(ev2) /\ ev2[i].req.cid = c
      BY <1>14, <3>1
    <3> QED BY <3>2
  <2> QED BY <2>1, <2>2
<1>17. ReceiptsMatch(d2)
  BY <1>13, <1>15, <1>16 DEF ReceiptsMatch
<1> QED BY <1>1, <1>2, <1>4, <1>9, <1>11, <1>17

(* A permitted project command makes a row with the next revision whose    *)
(* validity does not depend on the sequence number it is stored with.      *)
LEMMA NextProjectFacts ==
  ASSUME NEW row \in ProjectRow \cup {NoRow}, NEW env, env.cmd \in ProjectCommand,
         ProjectMoves(row, env.cmd), NEW seq
  PROVE  /\ NextProject(row, env, seq).rev = RevisionAfter(row, env.cmd)
         /\ RevisionAfter(row, env.cmd) \in Nat /\ Revision(row) \in Nat
         /\ row # NoRow => NextProject(row, env, seq).root = row.root
         /\ row = NoRow => NextProject(row, env, seq).root = NextProject(row, env, 0).root
         /\ ProjectValid(NextProject(row, env, 0)) => ProjectValid(NextProject(row, env, seq))
<1>1. /\ env.cmd.op \in {"create", "import", "set_trust", "set"}
      /\ env.cmd.op = "import" => env.cmd.rev \in Nat
  BY ProjectCommandTypes
<1>2. row # NoRow => row.rev \in Nat
  BY DEF ProjectRow
<1>3. Revision(row) \in Nat
  BY <1>2 DEF Revision
<1>4. RevisionAfter(row, env.cmd) \in Nat
  BY <1>1, <1>3 DEF RevisionAfter
<1>5. CASE env.cmd.op = "create"
  <2>1. \A q : NextProject(row, env, q) = Created(env.cmd, env, q)
    BY <1>5, Zenon DEF NextProject
  <2>2. row = NoRow /\ RevisionAfter(row, env.cmd) = 1
    BY <1>5 DEF ProjectMoves, RevisionAfter, Revision
  <2> QED BY <1>3, <1>4, <2>1, <2>2 DEF Created, ProjectValid
<1>6. CASE env.cmd.op = "import"
  <2>1. \A q : NextProject(row, env, q) = Imported(env.cmd, env, q)
    BY <1>6, Zenon DEF NextProject
  <2>2. row = NoRow /\ RevisionAfter(row, env.cmd) = env.cmd.rev
    BY <1>6 DEF ProjectMoves, RevisionAfter
  <2> QED BY <1>3, <1>4, <2>1, <2>2 DEF Imported, ProjectValid
<1>7. CASE env.cmd.op = "set_trust"
  <2>1. \A q : NextProject(row, env, q) =
                 Revised(row, env.cmd.trust, row.settings, env.at, q)
    BY <1>7, Zenon DEF NextProject
  <2>2. row # NoRow /\ RevisionAfter(row, env.cmd) = row.rev + 1
    BY <1>7 DEF ProjectMoves, RevisionAfter, Revision
  <2> QED BY <1>3, <1>4, <2>1, <2>2 DEF Revised, ProjectValid
<1>8. CASE env.cmd.op = "set"
  <2>1. \A q : NextProject(row, env, q) =
                 Revised(row, row.trust,
                         [row.settings EXCEPT ![env.cmd.setting] = env.cmd.value],
                         env.at, q)
    BY <1>8, Zenon DEF NextProject
  <2>2. row # NoRow /\ RevisionAfter(row, env.cmd) = row.rev + 1
    BY <1>8 DEF ProjectMoves, RevisionAfter, Revision
  <2> QED BY <1>3, <1>4, <2>1, <2>2 DEF Revised, ProjectValid
<1> QED BY <1>1, <1>5, <1>6, <1>7, <1>8

(* The same for side effects.                                              *)
LEMMA NextEffectFacts ==
  ASSUME NEW row \in EffectRow \cup {NoRow}, NEW env, env.cmd \in EffectCommand,
         EffectMoves(row, env.cmd), NEW seq
  PROVE  /\ NextEffect(row, env, seq).rev = Revision(row) + 1
         /\ Revision(row) \in Nat
         /\ EffectValid(NextEffect(row, env, 0)) => EffectValid(NextEffect(row, env, seq))
<1>1. env.cmd.op \in {"authorize", "start", "finish", "mark_unknown"}
  BY EffectCommandTypes
<1>2. row # NoRow => row.rev \in Nat
  BY DEF EffectRow
<1>3. Revision(row) \in Nat
  BY <1>2 DEF Revision
<1>4. CASE env.cmd.op = "authorize"
  <2>1. \A q : NextEffect(row, env, q) = Authorized(env.cmd, env, q)
    BY <1>4, Zenon DEF NextEffect
  <2>2. row = NoRow /\ Revision(row) = 0
    BY <1>4 DEF EffectMoves, Revision
  <2> QED BY <1>3, <2>1, <2>2 DEF Authorized, EffectValid
<1>5. ASSUME env.cmd.op # "authorize" PROVE row # NoRow /\ Revision(row) = row.rev
  BY <1>5 DEF EffectMoves, Revision
<1>6. CASE env.cmd.op = "start"
  <2>1. \A q : NextEffect(row, env, q) =
                 Advanced(row, "started", row.result, env.at, row.finished, env.at, q)
    BY <1>6, Zenon DEF NextEffect
  <2> QED BY <1>3, <1>5, <1>6, <2>1 DEF Advanced, EffectValid
<1>7. CASE env.cmd.op = "finish"
  <2>1. \A q : NextEffect(row, env, q) =
                 Advanced(row, "finished", env.cmd.result, row.started, env.at, env.at, q)
    BY <1>7, Zenon DEF NextEffect
  <2> QED BY <1>3, <1>5, <1>7, <2>1 DEF Advanced, EffectValid
<1>8. CASE env.cmd.op = "mark_unknown"
  <2>1. \A q : NextEffect(row, env, q) =
                 Advanced(row, "unknown", row.result, row.started, row.finished, env.at, q)
    BY <1>8, Zenon DEF NextEffect
  <2> QED BY <1>3, <1>5, <1>8, <2>1 DEF Advanced, EffectValid
<1> QED BY <1>1, <1>4, <1>6, <1>7, <1>8

(* What a log that replays makes of the projections are tables of rows.    *)
LEMMA ReplayTyped ==
  ASSUME NEW ev \in Seq(Event), Applies(ev, Len(ev)), NEW m \in 0..Len(ev)
  PROVE  /\ ReplayProjects(ev, m) \in [Projects -> ProjectRow \cup {NoRow}]
         /\ ReplayEffects(ev, m) \in [Actions -> EffectRow \cup {NoRow}]
<1>1. Applies(ev, m)
  <2>1. \A i \in 1..m : i \in 1..Len(ev)
    OBVIOUS
  <2> QED BY <2>1 DEF Applies
<1>2. ASSUME NEW p \in Projects PROVE ReplayProject(ev, m, p) \in ProjectRow \cup {NoRow}
  <2>1. CASE EventsOf(ev, m, p) = {}
    BY <2>1 DEF ReplayProject, ProjectOf
  <2>2. CASE EventsOf(ev, m, p) # {}
    BY <1>1, <2>2, ProjectRowTyped
  <2> QED BY <2>1, <2>2
<1>3. ASSUME NEW a \in Actions PROVE ReplayEffect(ev, m, a) \in EffectRow \cup {NoRow}
  <2>1. CASE EventsOf(ev, m, a) = {}
    BY <2>1 DEF ReplayEffect, EffectOf
  <2>2. CASE EventsOf(ev, m, a) # {}
    BY <1>1, <2>2, EffectRowTyped
  <2> QED BY <2>1, <2>2
<1> QED BY <1>2, <1>3 DEF ReplayProjects, ReplayEffects

(* d2 is d with more events, audit records and receipts.                   *)
Keeps(d, d2) ==
  /\ Len(d.events) <= Len(d2.events)
  /\ \A i \in 1..Len(d.events) : d2.events[i] = d.events[i]
  /\ Len(d.audit) <= Len(d2.audit)
  /\ \A i \in 1..Len(d.audit) : d2.audit[i] = d.audit[i]
  /\ \A c \in CommandIds : d.receipts[c] # NoReceipt => d2.receipts[c] = d.receipts[c]

(* A database keeps itself.                                                *)
LEMMA KeepsItself ==
  ASSUME NEW d \in Database
  PROVE  Keeps(d, d)
BY DatabaseTypes DEF Keeps

(* What is kept twice is kept.                                             *)
LEMMA KeepsTransitive ==
  ASSUME NEW d \in Database, NEW d2 \in Database, NEW d3 \in Database,
         Keeps(d, d2), Keeps(d2, d3)
  PROVE  Keeps(d, d3)
<1>1. /\ Len(d.events) \in Nat /\ Len(d2.events) \in Nat /\ Len(d3.events) \in Nat
      /\ Len(d.audit) \in Nat /\ Len(d2.audit) \in Nat /\ Len(d3.audit) \in Nat
  <2>1. \A x \in Database : x.events \in Seq(Event) /\ x.audit \in Seq(Audit)
    BY DatabaseTypes
  <2> QED BY <2>1
<1>2. \A c \in CommandIds : d.receipts[c] # NoReceipt => d3.receipts[c] = d.receipts[c]
  BY DEF Keeps
<1>3. /\ Len(d.events) <= Len(d3.events)
      /\ \A i \in 1..Len(d.events) : i \in 1..Len(d2.events)
  BY <1>1 DEF Keeps
<1>4. /\ Len(d.audit) <= Len(d3.audit)
      /\ \A i \in 1..Len(d.audit) : i \in 1..Len(d2.audit)
  BY <1>1 DEF Keeps
<1> QED BY <1>2, <1>3, <1>4 DEF Keeps

(* Recording a command under an unused identifier keeps the ledger.        *)
LEMMA CommitKeeps ==
  ASSUME NEW d \in Database, NEW env \in Envelope, NEW rev \in Nat,
         d.receipts[env.cid] = NoReceipt, NEW d2,
         d2.events = Recorded(d, env, rev).events,
         d2.receipts = Recorded(d, env, rev).receipts,
         d2.audit = Recorded(d, env, rev).audit
  PROVE  Keeps(d, d2)
<1>1. d.events \in Seq(Event) /\ d.audit \in Seq(Audit)
  BY DatabaseTypes
<1>2. PICK e \in Event : d2.events = Append(d.events, e)
  <2>1. [rev |-> rev, req |-> env] \in Event
    BY DEF Event
  <2> QED BY <2>1 DEF Recorded
<1>3. PICK r \in Audit : d2.audit = Append(d.audit, r)
  <2>1. [cid |-> env.cid, class |-> AuditClass(env.cmd)] \in Audit
    BY EnvelopeTypes, AuditClassTypes DEF Audit
  <2> QED BY <2>1 DEF Recorded
<1>4. \A c \in CommandIds : c # env.cid => d2.receipts[c] = d.receipts[c]
  BY DatabaseTypes DEF Recorded
<1>5. Len(d.events) <= Len(d2.events) /\ \A i \in 1..Len(d.events) : d2.events[i] = d.events[i]
  BY <1>1, <1>2
<1>6. Len(d.audit) <= Len(d2.audit) /\ \A i \in 1..Len(d.audit) : d2.audit[i] = d.audit[i]
  BY <1>1, <1>3
<1> QED BY <1>4, <1>5, <1>6 DEF Keeps

(* A committed project command leaves a sound, current database.           *)
LEMMA ProjectCommit ==
  ASSUME NEW d, Sound(d), ProjectionsCurrent(d), NEW env \in Envelope,
         env.id \in Projects, d.receipts[env.cid] = NoReceipt, ProjectPermits(d, env),
         NEW d2, d2 = ExecuteProject(d, env)
  PROVE  Sound(d2) /\ ProjectionsCurrent(d2) /\ Keeps(d, d2)
<1>1. PICK ev \in Seq(Event) : ev = d.events /\ Applies(ev, Len(ev))
  BY DatabaseTypes DEF Sound
<1>2. PICK n \in Nat : n = Len(ev)
  OBVIOUS
<1>3. PICK p \in Projects : p = env.id
  OBVIOUS
<1>4. PICK row : row = d.projects[p]
  OBVIOUS
<1>5. /\ row = ReplayProject(ev, n, p) /\ row \in ProjectRow \cup {NoRow}
      /\ \A q \in Projects : d.projects[q] = ReplayProject(ev, n, q)
      /\ \A a \in Actions : d.effects[a] = ReplayEffect(ev, n, a)
      /\ d.projectCursor = LastSequence(ev, Projects)
      /\ d.effectCursor = LastSequence(ev, Actions)
  <2>1. /\ d.projects = ReplayProjects(ev, n) /\ d.effects = ReplayEffects(ev, n)
        /\ d.projectCursor = LastSequence(ev, Projects)
        /\ d.effectCursor = LastSequence(ev, Actions)
    BY <1>1, <1>2 DEF ProjectionsCurrent, ProjectsCurrent, EffectsCurrent
  <2>2. d.projects \in [Projects -> ProjectRow \cup {NoRow}]
    BY DatabaseTypes DEF Sound
  <2> QED BY <1>4, <2>1, <2>2 DEF ReplayProjects, ReplayEffects
<1>6. env.cmd \in ProjectCommand
  BY EnvelopeTypes
<1>7. /\ ProjectMoves(row, env.cmd) /\ ProjectValid(NextProject(row, env, 0))
      /\ row = NoRow => \A q \in Projects : d.projects[q] # NoRow =>
                          d.projects[q].root # NextProject(row, env, 0).root
  BY <1>3, <1>4 DEF ProjectPermits
<1>8. PICK next : next = NextProject(row, env, n + 1)
  OBVIOUS
<1>9. /\ next.rev = RevisionAfter(row, env.cmd) /\ next.rev \in Nat /\ ProjectValid(next)
      /\ row # NoRow => next.root = row.root
      /\ row = NoRow => next.root = NextProject(row, env, 0).root
  BY <1>5, <1>6, <1>7, <1>8, NextProjectFacts
<1>10. PICK rev \in Nat : rev = next.rev
  BY <1>9
<1>11. /\ d2.events = Recorded(d, env, rev).events
       /\ d2.receipts = Recorded(d, env, rev).receipts
       /\ d2.audit = Recorded(d, env, rev).audit
       /\ d2.projects = [d.projects EXCEPT ![p] = next] /\ d2.projectCursor = n + 1
       /\ d2.effects = d.effects /\ d2.effectCursor = d.effectCursor
       /\ d2 = [events |-> d2.events, receipts |-> d2.receipts, audit |-> d2.audit,
                projects |-> d2.projects, projectCursor |-> d2.projectCursor,
                effects |-> d2.effects, effectCursor |-> d2.effectCursor]
  BY <1>1, <1>2, <1>3, <1>4, <1>8, <1>10 DEF ExecuteProject
<1>12. PICK e : e = [rev |-> rev, req |-> env]
  OBVIOUS
<1>13. /\ e \in Event /\ Extends(d2.events, ev, e)
       /\ d2.receipts \in [CommandIds -> Receipt \cup {NoReceipt}]
       /\ d2.audit \in Seq(Audit) /\ ReceiptsMatch(d2)
  BY <1>1, <1>11, <1>12, RecordedSound DEF Sound
<1>14. e.req = env /\ e.rev = RevisionAfter(row, e.req.cmd)
  BY <1>9, <1>10, <1>12
<1>15. PICK ev2 : ev2 = d2.events /\ Extends(ev2, ev, e)
  BY <1>13
<1>16. ev2 \in Seq(Event) /\ Len(ev2) = n + 1 /\ ev2[n + 1] = e
  BY <1>2, <1>13, <1>15, ExtendsTypes
<1>17. ReplayProject(ev2, n + 1, p) = next
  BY <1>1, <1>2, <1>3, <1>5, <1>7, <1>8, <1>13, <1>14, <1>15, ReplayNewProject
<1>18. EventApplies(ev2, n + 1)
  <2>1. ReplayProject(ev2, n, p) = row
    <3>1. n \in 0..Len(ev)
      BY <1>2
    <3> QED BY <1>5, <1>13, <1>15, <3>1, ReplayOld
  <2>2. (n + 1) - 1 = n
    OBVIOUS
  <2> QED BY <1>3, <1>7, <1>9, <1>14, <1>16, <1>17, <2>1, <2>2 DEF EventApplies
<1>19. Applies(ev2, Len(ev2))
  BY <1>1, <1>2, <1>13, <1>15, <1>18, AppliesNext
<1>20. \A q \in Projects : ReplayProject(ev2, n + 1, q) = IF q = p THEN next ELSE d.projects[q]
  <2>1. ASSUME NEW q \in Projects, q # p
        PROVE  ReplayProject(ev2, n + 1, q) = d.projects[q]
    <3>1. e.req.id # q
      BY <1>3, <1>14, <2>1
    <3>2. ReplayProject(ev2, Len(ev) + 1, q) = ReplayProject(ev, Len(ev), q)
      BY <1>13, <1>15, <3>1, ReplayOther
    <3> QED BY <1>2, <1>5, <3>2
  <2> QED BY <1>17, <2>1
<1>21. \A a \in Actions : ReplayEffect(ev2, n + 1, a) = d.effects[a]
  <2>1. ASSUME NEW a \in Actions
        PROVE  ReplayEffect(ev2, n + 1, a) = d.effects[a]
    <3>1. e.req.id # a
      BY <1>14, StoreAssumption
    <3>2. ReplayEffect(ev2, Len(ev) + 1, a) = ReplayEffect(ev, Len(ev), a)
      BY <1>13, <1>15, <3>1, ReplayOther
    <3> QED BY <1>2, <1>5, <3>2
  <2> QED BY <2>1
<1>22. d.projects \in [Projects -> ProjectRow \cup {NoRow}]
       /\ d.effects \in [Actions -> EffectRow \cup {NoRow}]
  BY DatabaseTypes DEF Sound
<1>23. d2.projects = ReplayProjects(ev2, n + 1)
  BY <1>11, <1>20, <1>22 DEF ReplayProjects
<1>24. d2.effects = ReplayEffects(ev2, n + 1)
  BY <1>11, <1>21, <1>22 DEF ReplayEffects
<1>25. /\ d2.projectCursor = LastSequence(ev2, Projects)
       /\ d2.effectCursor = LastSequence(ev2, Actions)
  <2>1. e.req.id \in Projects /\ e.req.id \notin Actions
    BY <1>14, StoreAssumption
  <2> QED BY <1>2, <1>5, <1>11, <1>13, <1>15, <2>1, LastSequenceNext
<1>26. ProjectionsCurrent(d2)
  BY <1>15, <1>16, <1>23, <1>24, <1>25
  DEF ProjectionsCurrent, ProjectsCurrent, EffectsCurrent
<1>27. RootsDistinct(ReplayProjects(ev2, Len(ev2)))
  <2>1. RootsDistinct(d.projects)
    BY <1>1 DEF Sound, ProjectionsCurrent, ProjectsCurrent
  <2>2. \A q \in Projects : d2.projects[q] = IF q = p THEN next ELSE d.projects[q]
    BY <1>11, <1>22
  <2>3. \A q \in Projects : q # p /\ d.projects[q] # NoRow => d.projects[q].root # next.root
    <3>1. CASE row = NoRow
      BY <1>7, <1>9, <3>1
    <3>2. CASE row # NoRow
      BY <1>4, <1>9, <2>1, <3>2 DEF RootsDistinct
    <3> QED BY <3>1, <3>2
  <2>4. RootsDistinct(d2.projects)
    BY <2>1, <2>2, <2>3 DEF RootsDistinct
  <2> QED BY <1>16, <1>23, <2>4
<1>28. d2 \in Database
  <2>1. /\ d2.projects \in [Projects -> ProjectRow \cup {NoRow}]
        /\ d2.effects \in [Actions -> EffectRow \cup {NoRow}]
    <3>1. n + 1 \in 0..Len(ev2)
      BY <1>16
    <3> QED BY <1>16, <1>19, <1>23, <1>24, <3>1, ReplayTyped
  <2>2. d2.projectCursor \in Nat /\ d2.effectCursor \in Nat
    BY <1>16, <1>25, LastSequenceTypes
  <2> QED BY <1>11, <1>13, <1>15, <1>16, <2>1, <2>2 DEF Database
<1>29. Keeps(d, d2)
  BY <1>11, CommitKeeps DEF Sound
<1> QED BY <1>13, <1>15, <1>19, <1>26, <1>27, <1>28, <1>29 DEF Sound

(* A committed side-effect command leaves a sound, current database.       *)
LEMMA EffectCommit ==
  ASSUME NEW d, Sound(d), ProjectionsCurrent(d), NEW env \in Envelope,
         env.id \notin Projects, d.receipts[env.cid] = NoReceipt, EffectPermits(d, env),
         NEW d2, d2 = ExecuteEffect(d, env)
  PROVE  Sound(d2) /\ ProjectionsCurrent(d2) /\ Keeps(d, d2)
<1>1. PICK ev \in Seq(Event) : ev = d.events /\ Applies(ev, Len(ev))
  BY DatabaseTypes DEF Sound
<1>2. PICK n \in Nat : n = Len(ev)
  OBVIOUS
<1>3. PICK x \in Actions : x = env.id
  BY EnvelopeTypes
<1>4. PICK row : row = d.effects[x]
  OBVIOUS
<1>5. /\ row = ReplayEffect(ev, n, x) /\ row \in EffectRow \cup {NoRow}
      /\ \A p \in Projects : d.projects[p] = ReplayProject(ev, n, p)
      /\ \A a \in Actions : d.effects[a] = ReplayEffect(ev, n, a)
      /\ d.projectCursor = LastSequence(ev, Projects)
      /\ d.effectCursor = LastSequence(ev, Actions)
  <2>1. /\ d.projects = ReplayProjects(ev, n) /\ d.effects = ReplayEffects(ev, n)
        /\ d.projectCursor = LastSequence(ev, Projects)
        /\ d.effectCursor = LastSequence(ev, Actions)
    BY <1>1, <1>2 DEF ProjectionsCurrent, ProjectsCurrent, EffectsCurrent
  <2>2. d.effects \in [Actions -> EffectRow \cup {NoRow}]
    BY DatabaseTypes DEF Sound
  <2> QED BY <1>4, <2>1, <2>2 DEF ReplayProjects, ReplayEffects
<1>6. env.cmd \in EffectCommand
  BY EnvelopeTypes
<1>7. EffectMoves(row, env.cmd) /\ EffectValid(NextEffect(row, env, 0))
  BY <1>3, <1>4 DEF EffectPermits
<1>8. PICK next : next = NextEffect(row, env, n + 1)
  OBVIOUS
<1>9. next.rev = Revision(row) + 1 /\ next.rev \in Nat /\ EffectValid(next)
  BY <1>5, <1>6, <1>7, <1>8, NextEffectFacts
<1>10. PICK rev \in Nat : rev = next.rev
  BY <1>9
<1>11. /\ d2.events = Recorded(d, env, rev).events
       /\ d2.receipts = Recorded(d, env, rev).receipts
       /\ d2.audit = Recorded(d, env, rev).audit
       /\ d2.projects = d.projects /\ d2.projectCursor = d.projectCursor
       /\ d2.effects = [d.effects EXCEPT ![x] = next] /\ d2.effectCursor = n + 1
       /\ d2 = [events |-> d2.events, receipts |-> d2.receipts, audit |-> d2.audit,
                projects |-> d2.projects, projectCursor |-> d2.projectCursor,
                effects |-> d2.effects, effectCursor |-> d2.effectCursor]
  BY <1>1, <1>2, <1>3, <1>4, <1>8, <1>10 DEF ExecuteEffect
<1>12. PICK e : e = [rev |-> rev, req |-> env]
  OBVIOUS
<1>13. /\ e \in Event /\ Extends(d2.events, ev, e)
       /\ d2.receipts \in [CommandIds -> Receipt \cup {NoReceipt}]
       /\ d2.audit \in Seq(Audit) /\ ReceiptsMatch(d2)
  BY <1>1, <1>11, <1>12, RecordedSound DEF Sound
<1>14. e.req = env /\ e.rev = Revision(row) + 1
  BY <1>9, <1>10, <1>12
<1>15. PICK ev2 : ev2 = d2.events /\ Extends(ev2, ev, e)
  BY <1>13
<1>16. ev2 \in Seq(Event) /\ Len(ev2) = n + 1 /\ ev2[n + 1] = e
  BY <1>2, <1>13, <1>15, ExtendsTypes
<1>17. ReplayEffect(ev2, n + 1, x) = next
  BY <1>1, <1>2, <1>3, <1>5, <1>7, <1>8, <1>13, <1>14, <1>15, ReplayNewEffect
<1>18. EventApplies(ev2, n + 1)
  <2>1. ReplayEffect(ev2, n, x) = row
    <3>1. n \in 0..Len(ev)
      BY <1>2
    <3> QED BY <1>5, <1>13, <1>15, <3>1, ReplayOld
  <2>2. (n + 1) - 1 = n
    OBVIOUS
  <2> QED BY <1>3, <1>7, <1>9, <1>14, <1>16, <1>17, <2>1, <2>2 DEF EventApplies
<1>19. Applies(ev2, Len(ev2))
  BY <1>1, <1>2, <1>13, <1>15, <1>18, AppliesNext
<1>20. \A p \in Projects : ReplayProject(ev2, n + 1, p) = d.projects[p]
  <2>1. ASSUME NEW p \in Projects
        PROVE  ReplayProject(ev2, n + 1, p) = d.projects[p]
    <3>1. e.req.id # p
      BY <1>14
    <3>2. ReplayProject(ev2, Len(ev) + 1, p) = ReplayProject(ev, Len(ev), p)
      BY <1>13, <1>15, <3>1, ReplayOther
    <3> QED BY <1>2, <1>5, <3>2
  <2> QED BY <2>1
<1>21. \A a \in Actions : ReplayEffect(ev2, n + 1, a) = IF a = x THEN next ELSE d.effects[a]
  <2>1. ASSUME NEW a \in Actions, a # x
        PROVE  ReplayEffect(ev2, n + 1, a) = d.effects[a]
    <3>1. e.req.id # a
      BY <1>3, <1>14, <2>1
    <3>2. ReplayEffect(ev2, Len(ev) + 1, a) = ReplayEffect(ev, Len(ev), a)
      BY <1>13, <1>15, <3>1, ReplayOther
    <3> QED BY <1>2, <1>5, <3>2
  <2> QED BY <1>17, <2>1
<1>22. d.projects \in [Projects -> ProjectRow \cup {NoRow}]
       /\ d.effects \in [Actions -> EffectRow \cup {NoRow}]
  BY DatabaseTypes DEF Sound
<1>23. d2.projects = ReplayProjects(ev2, n + 1)
  BY <1>11, <1>20, <1>22 DEF ReplayProjects
<1>24. d2.effects = ReplayEffects(ev2, n + 1)
  BY <1>11, <1>21, <1>22 DEF ReplayEffects
<1>25. /\ d2.projectCursor = LastSequence(ev2, Projects)
       /\ d2.effectCursor = LastSequence(ev2, Actions)
  <2>1. e.req.id \in Actions /\ e.req.id \notin Projects
    BY <1>3, <1>14
  <2> QED BY <1>2, <1>5, <1>11, <1>13, <1>15, <2>1, LastSequenceNext
<1>26. ProjectionsCurrent(d2)
  BY <1>15, <1>16, <1>23, <1>24, <1>25
  DEF ProjectionsCurrent, ProjectsCurrent, EffectsCurrent
<1>27. RootsDistinct(ReplayProjects(ev2, Len(ev2)))
  <2>1. RootsDistinct(d.projects)
    BY <1>1 DEF Sound, ProjectionsCurrent, ProjectsCurrent
  <2> QED BY <1>11, <1>16, <1>23, <2>1
<1>28. d2 \in Database
  <2>1. /\ d2.projects \in [Projects -> ProjectRow \cup {NoRow}]
        /\ d2.effects \in [Actions -> EffectRow \cup {NoRow}]
    <3>1. n + 1 \in 0..Len(ev2)
      BY <1>16
    <3> QED BY <1>16, <1>19, <1>23, <1>24, <3>1, ReplayTyped
  <2>2. d2.projectCursor \in Nat /\ d2.effectCursor \in Nat
    BY <1>16, <1>25, LastSequenceTypes
  <2> QED BY <1>11, <1>13, <1>15, <1>16, <2>1, <2>2 DEF Database
<1>29. Keeps(d, d2)
  BY <1>11, CommitKeeps DEF Sound
<1> QED BY <1>13, <1>15, <1>19, <1>26, <1>27, <1>28, <1>29 DEF Sound

-----------------------------------------------------------------------------
(* The inductive invariant.  Soundness of the database is a fact about the *)
(* ledger alone, so it survives damage to the projections; the projections *)
(* are current from verification on.  The working copies of the recovery   *)
(* and, if its projects are valid, of the upgrade have to satisfy the      *)
(* same, since CommitRecovery and CommitUpgrade install them.              *)

(* A database of version 1 has no ledger.                                  *)
Unledgered(d) ==
  /\ d.events = <<>> /\ d.audit = <<>>
  /\ \A c \in CommandIds : d.receipts[c] = NoReceipt

(* How far the import is: projects that were taken over are those of the   *)
(* old database, and no identifier but theirs has been used.               *)
Imports(d, work) ==
  /\ work \in Database
  /\ ReceiptsMatch(work)
  /\ ImportsValid(work) => Sound(work) /\ ProjectionsCurrent(work)
  /\ \A p \in Projects : work.projects[p] # NoRow =>
       d.projects[p] # NoRow /\ SameButSequence(work.projects[p], d.projects[p])
  /\ \A p \in Projects : work.receipts[p] # NoReceipt => work.projects[p] # NoRow

Inv ==
  /\ mode \in Modes
  /\ Sound(db)
  /\ mode \in {"unmigrated", "upgrading", "refused"} =>
       Unledgered(db) /\ RootsDistinct(db.projects)
  /\ mode = "upgrading" => Imports(db, tx.work)
  /\ mode \in {"verified", "recovering", "open"} => ProjectionsCurrent(db)
  /\ mode \notin {"upgrading", "recovering"} => tx = NoTx
  /\ mode = "recovering" => /\ Sound(tx.work) /\ ProjectionsCurrent(tx.work)
                            /\ tx.now \in Clock /\ Keeps(db, tx.work)

(* A committed command, of either aggregate, leaves a sound, current       *)
(* database and keeps the ledger it found.                                 *)
LEMMA Commit ==
  ASSUME NEW d, Sound(d), ProjectionsCurrent(d), NEW env \in Envelope,
         d.receipts[env.cid] = NoReceipt, Permits(d, env),
         NEW d2, d2 = Committed(d, env)
  PROVE  Sound(d2) /\ ProjectionsCurrent(d2) /\ Keeps(d, d2)
<1>1. CASE env.id \in Projects
  <2>1. ProjectPermits(d, env) /\ d2 = ExecuteProject(d, env)
    BY <1>1 DEF Permits, Committed
  <2> QED BY <1>1, <2>1, ProjectCommit
<1>2. CASE env.id \notin Projects
  <2>1. EffectPermits(d, env) /\ d2 = ExecuteEffect(d, env)
    BY <1>2 DEF Permits, Committed
  <2> QED BY <1>2, <2>1, EffectCommit
<1> QED BY <1>1, <1>2

(* A database without a ledger is sound.                                   *)
LEMMA UnledgeredSound ==
  ASSUME NEW d \in Database, Unledgered(d)
  PROVE  Sound(d)
<1>1. d.events = <<>> /\ Len(<<>>) = 0
  BY DEF Unledgered
<1>2. ReceiptsMatch(d)
  BY <1>1 DEF ReceiptsMatch, Unledgered
<1>3. Applies(d.events, Len(d.events))
  BY <1>1 DEF Applies
<1>4. RootsDistinct(ReplayProjects(d.events, Len(d.events)))
  <2>1. \A p \in Projects : EventsOf(d.events, Len(d.events), p) = {}
    BY <1>1 DEF EventsOf
  <2>2. \A p \in Projects : ReplayProjects(d.events, Len(d.events))[p] = NoRow
    BY <2>1 DEF ReplayProjects, ReplayProject, ProjectOf
  <2> QED BY <2>2 DEF RootsDistinct
<1> QED BY <1>2, <1>3, <1>4 DEF Sound

(* The empty database has no ledger and no rows, which is what it replays  *)
(* to.                                                                     *)
LEMMA EmptyCurrent ==
  /\ EmptyDatabase \in Database /\ Unledgered(EmptyDatabase)
  /\ ProjectionsCurrent(EmptyDatabase)
  /\ \A p \in Projects : EmptyDatabase.projects[p] = NoRow
<1>1. PICK d : d = EmptyDatabase
  OBVIOUS
<1>2. /\ d \in Database /\ d.events = <<>> /\ Len(<<>>) = 0 /\ d.audit = <<>>
      /\ \A c \in CommandIds : d.receipts[c] = NoReceipt
      /\ d.projects = [p \in Projects |-> NoRow] /\ d.projectCursor = 0
      /\ d.effects = [a \in Actions |-> NoRow] /\ d.effectCursor = 0
  BY <1>1 DEF EmptyDatabase, Database
<1>3. \A x : EventsOf(d.events, Len(d.events), x) = {}
  BY <1>2 DEF EventsOf
<1>4. /\ ReplayProjects(d.events, Len(d.events)) = [p \in Projects |-> NoRow]
      /\ ReplayEffects(d.events, Len(d.events)) = [a \in Actions |-> NoRow]
  BY <1>3 DEF ReplayProjects, ReplayEffects, ReplayProject, ReplayEffect, ProjectOf, EffectOf
<1>5. \A ids : LastSequence(d.events, ids) = 0
  BY <1>2 DEF LastSequence
<1> QED BY <1>1, <1>2, <1>4, <1>5
        DEF Unledgered, ProjectionsCurrent, ProjectsCurrent, EffectsCurrent

(* The invariant holds initially.                                          *)
LEMMA InitInv ==
  Init => Inv
<1> SUFFICES ASSUME Init PROVE Inv
  OBVIOUS
<1>1. PICK rows \in Legacy : db = [EmptyDatabase EXCEPT !.projects = rows]
  BY DEF Init
<1>2. rows \in [Projects -> ProjectRow \cup {NoRow}] /\ RootsDistinct(rows)
  BY LegacyAssumption
<1>3. db \in Database /\ Unledgered(db) /\ db.projects = rows
  BY <1>1, <1>2, EmptyCurrent DEF Unledgered, EmptyDatabase, Database
<1>4. Sound(db)
  BY <1>3, UnledgeredSound
<1> QED BY <1>2, <1>3, <1>4 DEF Init, Inv, Modes

(* A rebuild restores the projections and keeps the ledger.                *)
LEMMA RebuildSound ==
  ASSUME NEW d, Sound(d), NEW d2, d2 = Rebuilt(d)
  PROVE  Sound(d2) /\ ProjectionsCurrent(d2) /\ Keeps(d, d2)
<1>1. /\ d2.events = d.events /\ d2.receipts = d.receipts
      /\ d2.audit = Append(d.audit, [cid |-> "rebuild", class |-> "succeeded"])
      /\ d2.projects = ReplayProjects(d.events, Len(d.events))
      /\ d2.projectCursor = LastSequence(d.events, Projects)
      /\ d2.effects = ReplayEffects(d.events, Len(d.events))
      /\ d2.effectCursor = LastSequence(d.events, Actions)
      /\ d2 = [events |-> d2.events, receipts |-> d2.receipts, audit |-> d2.audit,
               projects |-> d2.projects, projectCursor |-> d2.projectCursor,
               effects |-> d2.effects, effectCursor |-> d2.effectCursor]
  BY DEF Rebuilt
<1>2. /\ d.events \in Seq(Event) /\ d.audit \in Seq(Audit) /\ Len(d.events) \in Nat
      /\ d.receipts \in [CommandIds -> Receipt \cup {NoReceipt}]
  BY DatabaseTypes DEF Sound
<1>3. PICK r \in Audit : d2.audit = Append(d.audit, r)
  <2>1. [cid |-> "rebuild", class |-> "succeeded"] \in Audit
    BY DEF Audit, AuditClasses, Results
  <2> QED BY <1>1, <2>1
<1>4. d2.audit \in Seq(Audit) /\ Len(d.audit) <= Len(d2.audit)
      /\ \A i \in 1..Len(d.audit) : d2.audit[i] = d.audit[i]
  BY <1>2, <1>3
<1>5. Keeps(d, d2)
  BY <1>1, <1>2, <1>4 DEF Keeps
<1>6. ProjectionsCurrent(d2)
  BY <1>1 DEF ProjectionsCurrent, ProjectsCurrent, EffectsCurrent
<1>7. /\ d2.projects \in [Projects -> ProjectRow \cup {NoRow}]
      /\ d2.effects \in [Actions -> EffectRow \cup {NoRow}]
  <2>1. Len(d.events) \in 0..Len(d.events) /\ Applies(d.events, Len(d.events))
    BY <1>2 DEF Sound
  <2> QED BY <1>1, <1>2, <2>1, ReplayTyped
<1>8. d2.projectCursor \in Nat /\ d2.effectCursor \in Nat
  BY <1>1, <1>2, LastSequenceTypes
<1>9. d2 \in Database
  BY <1>1, <1>2, <1>4, <1>7, <1>8 DEF Database
<1> QED BY <1>1, <1>5, <1>6, <1>9 DEF Sound, ReceiptsMatch

(* Damage to projections leaves the ledger sound.                          *)
LEMMA DamageSound ==
  ASSUME NEW d, Sound(d), NEW d2 \in StaleProjections(d) \cup OverwrittenFields(d)
  PROVE  Sound(d2) /\ Keeps(d, d2)
<1>1. \E projects \in [Projects -> ProjectRow \cup {NoRow}],
         effects \in [Actions -> EffectRow \cup {NoRow}], cursor \in Nat :
           d2 = WithProjections(d, projects, effects, cursor)
  <2>1. /\ d.events \in Seq(Event) /\ Len(d.events) \in Nat
        /\ d.projects \in [Projects -> ProjectRow \cup {NoRow}]
        /\ d.effects \in [Actions -> EffectRow \cup {NoRow}]
        /\ d.effectCursor \in Nat /\ Applies(d.events, Len(d.events))
    BY DatabaseTypes DEF Sound
  <2>2. CASE d2 \in StaleProjections(d)
    <3>1. PICK n \in 0..Len(d.events) :
            \/ d2 = WithProjections(d, ReplayProjects(d.events, n), d.effects, d.effectCursor)
            \/ d2 = WithProjections(d, d.projects, ReplayEffects(d.events, n), n)
      BY <2>2 DEF StaleProjections
    <3>2. /\ ReplayProjects(d.events, n) \in [Projects -> ProjectRow \cup {NoRow}]
          /\ ReplayEffects(d.events, n) \in [Actions -> EffectRow \cup {NoRow}]
          /\ n \in Nat
      BY <2>1, ReplayTyped
    <3> QED BY <2>1, <3>1, <3>2
  <2>3. CASE d2 \in OverwrittenFields(d)
    <3>1. PICK p \in Projects, f \in [Settings -> Values] :
            /\ d.projects[p] # NoRow
            /\ d2 = WithProjections(d, Overwritten(d, p, f), d.effects, d.effectCursor)
      BY <2>3 DEF OverwrittenFields
    <3>2. d.projects[p] \in ProjectRow
      BY <2>1, <3>1
    <3>3. PICK row \in ProjectRow : row = d.projects[p]
      BY <3>2
    <3>4. [rev |-> row.rev, trust |-> row.trust, root |-> row.root, settings |-> f,
           created |-> row.created, updated |-> row.updated, seq |-> row.seq] \in ProjectRow
      BY DEF ProjectRow
    <3>5. Overwritten(d, p, f) \in [Projects -> ProjectRow \cup {NoRow}]
      BY <2>1, <3>3, <3>4 DEF Overwritten
    <3> QED BY <2>1, <3>1, <3>5
  <2> QED BY <2>2, <2>3
<1>2. PICK projects \in [Projects -> ProjectRow \cup {NoRow}],
           effects \in [Actions -> EffectRow \cup {NoRow}], cursor \in Nat :
             d2 = WithProjections(d, projects, effects, cursor)
  BY <1>1
<1>3. /\ d2.events = d.events /\ d2.receipts = d.receipts /\ d2.audit = d.audit
      /\ d2 = [events |-> d.events, receipts |-> d.receipts, audit |-> d.audit,
               projects |-> projects, projectCursor |-> d.projectCursor,
               effects |-> effects, effectCursor |-> cursor]
  BY <1>2 DEF WithProjections
<1>4. d2 \in Database
  BY <1>3, DatabaseTypes DEF Sound, Database
<1>5. Keeps(d, d2)
  <2>1. Keeps(d, d)
    BY KeepsItself DEF Sound
  <2> QED BY <1>3, <2>1 DEF Keeps
<1> QED BY <1>3, <1>4, <1>5 DEF Sound, ReceiptsMatch

-----------------------------------------------------------------------------
(* Every step preserves the invariant, and no step takes anything from the *)
(* ledger.                                                                 *)

(* What a client sends is an envelope.                                     *)
LEMMA ClientEnvelopesTyped ==
  ASSUME NEW env \in ClientEnvelopes
  PROVE  env \in Envelope
<1>1. Commands \subseteq CommandIds /\ 0..MaxRevision \subseteq Nat /\ Times \subseteq Nat
  BY StoreAssumption DEF CommandIds
<1>2. ClientProjectCommand \subseteq ProjectCommand
  BY DEF ProjectCommand
<1>3. CASE env \in EnvelopeOf(Commands, Projects, 0..MaxRevision, Times, ClientProjectCommand)
  BY <1>1, <1>2, <1>3 DEF Envelope, EnvelopeOf
<1>4. CASE env \in EnvelopeOf(Commands, Actions, 0..MaxRevision, Times, EffectCommand)
  BY <1>1, <1>4 DEF Envelope, EnvelopeOf
<1> QED BY <1>3, <1>4 DEF ClientEnvelopes

(* An executed command either changes nothing or commits.                  *)
LEMMA ExecuteStep ==
  ASSUME Inv, NEW env \in ClientEnvelopes, Execute(env)
  PROVE  Inv' /\ Keeps(db, db')
<1>1. env \in Envelope
  BY ClientEnvelopesTyped
<1>2. mode = "open" /\ mode' = "open" /\ tx' = tx /\ tx = NoTx
  BY DEF Execute, Inv
<1>3. Sound(db) /\ ProjectionsCurrent(db)
  BY <1>2 DEF Inv
<1>4. Sound(db') /\ ProjectionsCurrent(db') /\ Keeps(db, db')
  <2>1. CASE Outcome(db, env) = "committed"
    <3>1. db' = Committed(db, env)
      BY <2>1 DEF Execute
    <3>2. db.receipts[env.cid] = NoReceipt
      BY <2>1, Zenon DEF Outcome
    <3>3. Permits(db, env)
      BY <2>1, Zenon DEF Outcome
    <3> QED BY <1>1, <1>3, <3>1, <3>2, <3>3, Commit
  <2>2. CASE Outcome(db, env) # "committed"
    <3>1. db' = db
      BY <2>2 DEF Execute
    <3> QED BY <1>3, <3>1, KeepsItself DEF Sound
  <2> QED BY <2>1, <2>2
<1> QED BY <1>2, <1>4 DEF Inv, Modes

(* The envelope that stands for what migration 2 records of a project.     *)
LEMMA ImportEnvelopeTyped ==
  ASSUME NEW p \in Projects, db \in Database, NEW row \in ProjectRow, row = db.projects[p],
         NEW env, env = ImportEnvelope(p)
  PROVE  /\ env \in Envelope /\ env.id = p /\ env.cid = p /\ env.expected = 0
         /\ env.at = row.updated /\ env.cmd.op = "import" /\ env.cmd.root = row.root
         /\ env.cmd.settings = row.settings /\ env.cmd.trust = row.trust
         /\ env.cmd.rev = row.rev /\ env.cmd.created = row.created
<1>1. PICK cmd : cmd = [op |-> "import", root |-> row.root, settings |-> row.settings,
                        trust |-> row.trust, rev |-> row.rev, created |-> row.created]
  OBVIOUS
<1>2. /\ row.root \in Roots /\ row.settings \in [Settings -> Values]
      /\ row.trust \in Trusts /\ row.rev \in Nat /\ row.created \in Nat /\ row.updated \in Nat
  BY DEF ProjectRow
<1>3. cmd \in ProjectCommand
  BY <1>1, <1>2 DEF ProjectCommand, ImportCommand
<1>4. env = [cid |-> p, id |-> p, expected |-> 0, at |-> row.updated, cmd |-> cmd]
  BY <1>1 DEF ImportEnvelope
<1>5. p \in CommandIds
  BY DEF CommandIds
<1>6. env \in Envelope
  BY <1>2, <1>3, <1>4, <1>5 DEF Envelope, EnvelopeOf
<1> QED BY <1>1, <1>4, <1>6

(* If the working copy is valid with the next project in it, it was valid  *)
(* without, and the import is permitted as a command would be: the old     *)
(* projects have roots of their own.                                       *)
LEMMA ImportPermitted ==
  ASSUME Inv, NEW p \in Projects, ImportProject(p), NEW d, d = tx.work,
         NEW env, env = ImportEnvelope(p), NEW d2, d2 = ExecuteProject(d, env),
         ImportsValid(d2)
  PROVE  /\ ImportsValid(d) /\ Sound(d) /\ ProjectionsCurrent(d)
         /\ ProjectPermits(d, env)
<1>1. /\ db \in Database /\ RootsDistinct(db.projects) /\ Imports(db, d) /\ d \in Database
      /\ db.projects[p] # NoRow /\ d.projects[p] = NoRow
  BY DEF ImportProject, Inv, Sound, Imports
<1>2. PICK row \in ProjectRow : row = db.projects[p]
  BY <1>1, DatabaseTypes
<1>3. /\ env \in Envelope /\ env.id = p /\ env.cid = p /\ env.expected = 0
      /\ env.at = row.updated /\ env.cmd.op = "import" /\ env.cmd.root = row.root
      /\ env.cmd.rev = row.rev /\ env.cmd.created = row.created
  BY <1>1, <1>2, ImportEnvelopeTyped
<1>4. \A q : NextProject(NoRow, env, q) = Imported(env.cmd, env, q)
  BY <1>3, Zenon DEF NextProject
<1>5. d.projects \in [Projects -> ProjectRow \cup {NoRow}]
  BY <1>1, DatabaseTypes
<1>6. PICK next : next = Imported(env.cmd, env, Len(d.events) + 1)
  OBVIOUS
<1>7. d2.projects = [d.projects EXCEPT ![p] = next]
  BY <1>1, <1>3, <1>4, <1>6 DEF ExecuteProject
<1>8. /\ d2.projects[p] = next
      /\ \A q \in Projects : q # p => d2.projects[q] = d.projects[q]
  BY <1>5, <1>7
<1>9. ImportsValid(d)
  BY <1>1, <1>8 DEF ImportsValid
<1>10. Sound(d) /\ ProjectionsCurrent(d)
  BY <1>1, <1>9 DEF Imports
<1>11. next # NoRow
  <2>1. next \in ProjectRow
    <3>1. /\ env.cmd.root \in Roots /\ env.cmd.settings \in [Settings -> Values]
          /\ env.cmd.trust \in Trusts /\ env.cmd.rev \in Nat /\ env.cmd.created \in Nat
          /\ env.at \in Nat
      BY <1>3, EnvelopeTypes, ProjectCommandTypes
    <3>2. Len(d.events) + 1 \in Nat
      BY <1>1, DatabaseTypes
    <3> QED BY <1>6, <3>1, <3>2 DEF Imported, ProjectRow
  <2> QED BY <2>1, StoreAssumption
<1>12. ProjectValid(next)
  BY <1>8, <1>11 DEF ImportsValid
<1>13. ProjectMoves(NoRow, env.cmd)
  BY <1>3 DEF ProjectMoves
<1>14. PICK next0 : next0 = NextProject(NoRow, env, 0)
  OBVIOUS
<1>15. /\ next0.rev = next.rev /\ next0.root = row.root /\ next.root = row.root
       /\ next0.created = next.created /\ next0.updated = next.updated
  BY <1>3, <1>4, <1>6, <1>14 DEF Imported
<1>16. ProjectValid(next0)
  BY <1>12, <1>15 DEF ProjectValid
<1>17. ASSUME NEW q \in Projects, d.projects[q] # NoRow
       PROVE  d.projects[q].root # next0.root
  <2>1. q # p /\ db.projects[q] # NoRow /\ SameButSequence(d.projects[q], db.projects[q])
    BY <1>1, <1>17 DEF Imports
  <2>2. PICK a \in ProjectRow : a = d.projects[q]
    BY <1>5, <1>17
  <2>3. PICK b \in ProjectRow : b = db.projects[q]
    BY <1>1, <2>1, DatabaseTypes
  <2>4. a.root = b.root
    <3>1. [a EXCEPT !.seq = 0].root = a.root /\ [b EXCEPT !.seq = 0].root = b.root
      BY DEF ProjectRow
    <3> QED BY <2>1, <2>2, <2>3, <3>1 DEF SameButSequence
  <2>5. b.root # row.root
    BY <1>1, <1>2, <2>1, <2>3 DEF RootsDistinct
  <2> QED BY <1>15, <2>2, <2>4, <2>5
<1>18. ProjectPermits(d, env)
  BY <1>1, <1>3, <1>13, <1>14, <1>16, <1>17 DEF ProjectPermits, Revision
<1> QED BY <1>9, <1>10, <1>18

(* One project is taken over into the working copy.                        *)
LEMMA ImportStep ==
  ASSUME Inv, NEW p \in Projects, ImportProject(p)
  PROVE  Inv' /\ Keeps(db, db')
<1>1. /\ mode = "upgrading" /\ mode' = "upgrading" /\ db' = db
      /\ Sound(db) /\ db \in Database /\ Unledgered(db) /\ RootsDistinct(db.projects)
      /\ Imports(db, tx.work)
      /\ db.projects[p] # NoRow /\ tx.work.projects[p] = NoRow
      /\ tx' = [work |-> ExecuteProject(tx.work, ImportEnvelope(p)), now |-> tx.now]
  BY DEF ImportProject, Inv, Sound
<1>2. PICK d \in Database : d = tx.work
  BY <1>1 DEF Imports
<1>3. PICK row \in ProjectRow : row = db.projects[p]
  BY <1>1, DatabaseTypes
<1>4. PICK env : env = ImportEnvelope(p)
  OBVIOUS
<1>5. /\ env \in Envelope /\ env.id = p /\ env.cid = p /\ env.expected = 0
      /\ env.at = row.updated /\ env.cmd.op = "import" /\ env.cmd.root = row.root
      /\ env.cmd.settings = row.settings /\ env.cmd.trust = row.trust
      /\ env.cmd.rev = row.rev /\ env.cmd.created = row.created
  BY <1>1, <1>3, <1>4, ImportEnvelopeTyped
<1>6. PICK d2 : d2 = ExecuteProject(d, env)
  OBVIOUS
<1>7. tx'.work = d2
  BY <1>1, <1>2, <1>4, <1>6
<1>8. PICK n \in Nat : n = Len(d.events)
  BY DatabaseTypes
<1>9. /\ d.projects[p] = NoRow /\ ReceiptsMatch(d) /\ d.receipts[p] = NoReceipt
      /\ d.projects \in [Projects -> ProjectRow \cup {NoRow}]
      /\ p \in CommandIds
  BY <1>1, <1>2, DatabaseTypes DEF Imports, CommandIds
<1>10. \A q : NextProject(NoRow, env, q) = Imported(env.cmd, env, q)
  BY <1>5, Zenon DEF NextProject
<1>11. PICK next \in ProjectRow : next = NextProject(NoRow, env, n + 1)
  <2>1. Imported(env.cmd, env, n + 1) \in ProjectRow
    BY <1>5 DEF Imported, ProjectRow
  <2> QED BY <1>10, <2>1
<1>12. /\ next.rev = row.rev /\ next.trust = row.trust /\ next.root = row.root
       /\ next.settings = row.settings /\ next.created = row.created
       /\ next.updated = row.updated
  BY <1>5, <1>10, <1>11 DEF Imported
<1>13. PICK rev \in Nat : rev = next.rev
  BY DEF ProjectRow
<1>14. /\ d2.events = Recorded(d, env, rev).events
       /\ d2.receipts = Recorded(d, env, rev).receipts
       /\ d2.audit = Recorded(d, env, rev).audit
       /\ d2.projects = [d.projects EXCEPT ![p] = next] /\ d2.projectCursor = n + 1
       /\ d2.effects = d.effects /\ d2.effectCursor = d.effectCursor
       /\ d2 = [events |-> d2.events, receipts |-> d2.receipts, audit |-> d2.audit,
                projects |-> d2.projects, projectCursor |-> d2.projectCursor,
                effects |-> d2.effects, effectCursor |-> d2.effectCursor]
  BY <1>5, <1>6, <1>8, <1>9, <1>11, <1>13 DEF ExecuteProject
<1>15. d2 \in Database /\ ReceiptsMatch(d2)
  <2>1. PICK e : e = [rev |-> rev, req |-> env]
    OBVIOUS
  <2>2. /\ e \in Event /\ Extends(d2.events, d.events, e)
        /\ d2.receipts \in [CommandIds -> Receipt \cup {NoReceipt}]
        /\ d2.audit \in Seq(Audit) /\ ReceiptsMatch(d2)
    BY <1>5, <1>9, <1>14, <2>1, RecordedSound
  <2>3. d2.events \in Seq(Event)
    BY <2>2, DatabaseTypes, ExtendsTypes
  <2>4. d2.projects \in [Projects -> ProjectRow \cup {NoRow}]
    BY <1>9, <1>14
  <2> QED BY <1>8, <1>14, <2>2, <2>3, <2>4, DatabaseTypes DEF Database
<1>16. /\ d2.projects[p] = next /\ next # NoRow
       /\ \A q \in Projects : q # p => d2.projects[q] = d.projects[q]
  BY <1>9, <1>14, StoreAssumption
<1>17. ASSUME ImportsValid(d2) PROVE Sound(d2) /\ ProjectionsCurrent(d2)
  <2>1. Sound(d) /\ ProjectionsCurrent(d) /\ ProjectPermits(d, env)
    BY <1>2, <1>4, <1>6, <1>17, ImportPermitted
  <2> QED BY <1>5, <1>6, <1>9, <2>1, ProjectCommit
<1>18. SameButSequence(next, row)
  BY <1>12 DEF SameButSequence, ProjectRow
<1>19. ASSUME NEW q \in Projects, d2.receipts[q] # NoReceipt
       PROVE  d2.projects[q] # NoRow
  <2>1. CASE q = p
    BY <1>16, <2>1
  <2>2. CASE q # p
    <3>1. q \in CommandIds
      BY DEF CommandIds
    <3>2. d2.receipts[q] = d.receipts[q]
      BY <1>5, <1>14, <2>2, <3>1, DatabaseTypes DEF Recorded
    <3> QED BY <1>1, <1>2, <1>16, <1>19, <2>2, <3>2 DEF Imports
  <2> QED BY <2>1, <2>2
<1>20. Imports(db, d2)
  <2>1. ASSUME NEW q \in Projects, d2.projects[q] # NoRow
        PROVE  db.projects[q] # NoRow /\ SameButSequence(d2.projects[q], db.projects[q])
    <3>1. CASE q = p
      BY <1>1, <1>3, <1>16, <1>18, <3>1
    <3>2. CASE q # p
      BY <1>1, <1>2, <1>16, <2>1, <3>2 DEF Imports
    <3> QED BY <3>1, <3>2
  <2> QED BY <1>15, <1>17, <1>19, <2>1 DEF Imports
<1>21. Keeps(db, db')
  BY <1>1, KeepsItself
<1> QED BY <1>1, <1>7, <1>20, <1>21 DEF Inv, Modes

(* The upgrade installs its working copy, or leaves everything as it was.  *)
LEMMA CommitUpgradeStep ==
  ASSUME Inv, CommitUpgrade
  PROVE  Inv' /\ Keeps(db, db')
<1>1. /\ mode = "upgrading" /\ tx' = NoTx /\ Sound(db) /\ Unledgered(db)
      /\ RootsDistinct(db.projects) /\ Imports(db, tx.work)
  BY DEF CommitUpgrade, Inv
<1>2. CASE ImportsValid(tx.work)
  <2>1. db' = tx.work /\ mode' = "opening"
    BY <1>2 DEF CommitUpgrade
  <2>2. Sound(db')
    BY <1>1, <1>2, <2>1 DEF Imports
  <2>3. /\ Len(db.events) = 0 /\ Len(db.audit) = 0 /\ Len(db'.events) \in Nat
        /\ Len(db'.audit) \in Nat
    BY <1>1, <2>2, DatabaseTypes DEF Unledgered, Sound
  <2>4. Keeps(db, db')
    BY <1>1, <2>3 DEF Keeps, Unledgered
  <2> QED BY <1>1, <2>1, <2>2, <2>4 DEF Inv, Modes
<1>3. CASE ~ImportsValid(tx.work)
  <2>1. db' = db /\ mode' = "refused"
    BY <1>3 DEF CommitUpgrade
  <2>2. Keeps(db, db')
    BY <1>1, <2>1, KeepsItself DEF Sound
  <2> QED BY <1>1, <2>1, <2>2 DEF Inv, Modes
<1> QED BY <1>2, <1>3

(* The envelope that startup recovery makes for a started effect.          *)
LEMMA RecoveryEnvelopeTyped ==
  ASSUME NEW a \in Actions, NEW cid \in RecoveryIds, a \in Started(tx.work),
         tx.work \in Database, tx.now \in Clock
  PROVE  /\ RecoveryEnvelope(a, cid) \in Envelope
         /\ RecoveryEnvelope(a, cid).id = a /\ RecoveryEnvelope(a, cid).cid = cid
<1>1. tx.work.effects[a] \in EffectRow
  BY DatabaseTypes DEF Started
<1>2. tx.work.effects[a].rev \in Nat /\ cid \in CommandIds /\ tx.now \in Nat
  BY <1>1, StoreAssumption DEF EffectRow, CommandIds
<1>3. PICK cmd \in EffectCommand : cmd = [op |-> "mark_unknown"]
  BY DEF EffectCommand
<1> QED BY <1>2, <1>3 DEF RecoveryEnvelope, Envelope, EnvelopeOf

(* One interrupted effect is converted in the working copy, or the whole   *)
(* transaction is given up.                                                *)
LEMMA RecoverEffectStep ==
  ASSUME Inv, NEW a \in Actions, RecoverEffect(a)
  PROVE  Inv' /\ Keeps(db, db')
<1>1. /\ mode = "recovering" /\ db' = db /\ Sound(db) /\ ProjectionsCurrent(db)
      /\ Sound(tx.work) /\ ProjectionsCurrent(tx.work) /\ tx.now \in Clock
      /\ Keeps(db, tx.work) /\ a \in Started(tx.work)
  BY DEF RecoverEffect, Inv
<1>2. PICK cid \in RecoveryIds :
        /\ tx.work.receipts[cid] = NoReceipt
        /\ IF EffectPermits(tx.work, RecoveryEnvelope(a, cid))
           THEN /\ tx' = [work |-> ExecuteEffect(tx.work, RecoveryEnvelope(a, cid)),
                          now |-> tx.now]
                /\ mode' = mode
           ELSE tx' = NoTx /\ mode' = "failed"
  BY DEF RecoverEffect
<1>3. PICK env \in Envelope : /\ env = RecoveryEnvelope(a, cid)
                              /\ env.id = a /\ env.cid = cid
  BY <1>1, RecoveryEnvelopeTyped DEF Sound
<1>4. Keeps(db, db')
  BY <1>1, KeepsItself DEF Sound
<1>5. CASE EffectPermits(tx.work, env)
  <2>1. PICK d2 : d2 = ExecuteEffect(tx.work, env)
    OBVIOUS
  <2>2. mode' = "recovering" /\ tx'.work = d2 /\ tx'.now = tx.now
    BY <1>1, <1>2, <1>3, <1>5, <2>1
  <2>3. a \notin Projects
    BY StoreAssumption
  <2>4. Sound(d2) /\ ProjectionsCurrent(d2) /\ Keeps(tx.work, d2)
    BY <1>1, <1>2, <1>3, <1>5, <2>1, <2>3, EffectCommit
  <2>5. Keeps(db, d2)
    BY <1>1, <2>4, KeepsTransitive DEF Sound
  <2> QED BY <1>1, <1>4, <2>2, <2>4, <2>5 DEF Inv, Modes
<1>6. CASE ~EffectPermits(tx.work, env)
  <2>1. tx' = NoTx /\ mode' = "failed"
    BY <1>2, <1>3, <1>6
  <2> QED BY <1>1, <1>4, <2>1 DEF Inv, Modes
<1> QED BY <1>5, <1>6

(* The invariant is inductive, and every step keeps the ledger it finds.   *)
LEMMA StepInv ==
  ASSUME Inv, [Next]_vars
  PROVE  Inv' /\ Keeps(db, db')
<1>1. CASE StartOpen
  <2>1. db' = db /\ tx' = tx /\ mode' = "opening" /\ mode \in {"closed", "failed"}
    BY <1>1 DEF StartOpen
  <2>2. Keeps(db, db')
    BY <2>1, KeepsItself DEF Inv, Sound
  <2> QED BY <2>1, <2>2 DEF Inv, Modes
<1>2. CASE VerifyAndRepair
  <2>1. tx' = tx /\ tx = NoTx /\ mode' \in {"verified", "failed"} /\ Sound(db)
    BY <1>2 DEF VerifyAndRepair, Inv
  <2>2. CASE VerificationPasses(db) /\ ~ProjectionsCurrent(db)
    <3>1. db' = Rebuilt(db)
      BY <1>2, <2>2 DEF VerifyAndRepair
    <3>2. Sound(db') /\ ProjectionsCurrent(db') /\ Keeps(db, db')
      BY <2>1, <3>1, RebuildSound
    <3> QED BY <2>1, <3>2 DEF Inv, Modes
  <2>3. CASE ~(VerificationPasses(db) /\ ~ProjectionsCurrent(db))
    <3>1. db' = db /\ (mode' = "verified" => ProjectionsCurrent(db))
      BY <1>2, <2>3 DEF VerifyAndRepair
    <3>2. Keeps(db, db')
      BY <2>1, <3>1, KeepsItself DEF Sound
    <3> QED BY <2>1, <3>1, <3>2 DEF Inv, Modes
  <2> QED BY <2>2, <2>3
<1>3. CASE BeginRecovery
  <2>1. PICK now \in Clock : tx' = [work |-> db, now |-> now]
    BY <1>3 DEF BeginRecovery
  <2>2. mode = "verified" /\ mode' = "recovering" /\ db' = db
        /\ tx'.work = db /\ tx'.now = now
    BY <1>3, <2>1 DEF BeginRecovery
  <2>3. Sound(db) /\ ProjectionsCurrent(db)
    BY <2>2 DEF Inv
  <2>4. Keeps(db, db)
    BY <2>3, KeepsItself DEF Sound
  <2> QED BY <2>2, <2>3, <2>4 DEF Inv, Modes
<1>4. ASSUME NEW a \in Actions, RecoverEffect(a)
      PROVE  Inv' /\ Keeps(db, db')
  BY <1>4, RecoverEffectStep
<1>5. CASE CommitRecovery
  <2>1. /\ Sound(tx.work) /\ ProjectionsCurrent(tx.work) /\ Keeps(db, tx.work)
        /\ db' = tx.work /\ mode' = "open" /\ tx' = NoTx
    BY <1>5 DEF CommitRecovery, Inv
  <2> QED BY <2>1 DEF Inv, Modes
<1>6. ASSUME NEW env \in ClientEnvelopes, Execute(env)
      PROVE  Inv' /\ Keeps(db, db')
  BY <1>6, ExecuteStep
<1>7. CASE Crash
  <2>1. /\ db' = db /\ tx' = NoTx /\ mode' \in {"closed", "unmigrated"}
        /\ mode' = "unmigrated" => mode = "upgrading"
    BY <1>7 DEF Crash, Closed
  <2>2. Keeps(db, db')
    BY <2>1, KeepsItself DEF Inv, Sound
  <2> QED BY <2>1, <2>2 DEF Inv, Modes
<1>8. CASE Damage
  <2>1. /\ mode = "closed" /\ mode' = "closed" /\ tx' = tx /\ tx = NoTx /\ Sound(db)
        /\ db' \in StaleProjections(db) \cup OverwrittenFields(db)
    BY <1>8 DEF Damage, Inv
  <2>2. Sound(db') /\ Keeps(db, db')
    BY <2>1, DamageSound
  <2> QED BY <2>1, <2>2 DEF Inv, Modes
<1>9. CASE UNCHANGED vars
  <2>1. db' = db /\ tx' = tx /\ mode' = mode
    BY <1>9 DEF vars
  <2>2. Keeps(db, db')
    BY <2>1, KeepsItself DEF Inv, Sound
  <2> QED BY <2>1, <2>2 DEF Inv
<1>10. CASE BeginUpgrade
  <2>1. /\ mode \in {"unmigrated", "refused"} /\ mode' = "upgrading" /\ db' = db
        /\ tx'.work = EmptyDatabase
    BY <1>10 DEF BeginUpgrade
  <2>2. Imports(db, EmptyDatabase)
    <3>1. Sound(EmptyDatabase)
      BY EmptyCurrent, UnledgeredSound
    <3>2. \A p \in Projects : EmptyDatabase.receipts[p] = NoReceipt
      BY EmptyCurrent DEF Unledgered, CommandIds
    <3> QED BY <3>1, <3>2, EmptyCurrent DEF Imports, Sound
  <2>3. Keeps(db, db')
    BY <2>1, KeepsItself DEF Inv, Sound
  <2> QED BY <2>1, <2>2, <2>3 DEF Inv, Modes
<1>11. ASSUME NEW p \in Projects, ImportProject(p)
       PROVE  Inv' /\ Keeps(db, db')
  BY <1>11, ImportStep
<1>12. CASE CommitUpgrade
  BY <1>12, CommitUpgradeStep
<1> QED BY <1>1, <1>2, <1>3, <1>4, <1>5, <1>6, <1>7, <1>8, <1>9, <1>10, <1>11, <1>12
        DEF Next

-----------------------------------------------------------------------------
(* The theorems.                                                           *)

(* The inductive invariant holds in every reachable state.                 *)
THEOREM Invariance ==
  Spec => []Inv
<1>1. Inv /\ [Next]_vars => Inv'
  BY StepInv
<1> QED BY InitInv, <1>1, PTL DEF Spec

(* Every table of the store holds rows of its shape at all times, and a    *)
(* working copy exists exactly while a transaction upgrades or recovers.   *)
THEOREM TypeCorrect ==
  Spec => []TypeOK
<1>1. Inv => TypeOK
  BY DEF Inv, Imports, Sound, TypeOK
<1> QED BY Invariance, <1>1, PTL

(* Receipts and events that agree one by one pass the startup check.       *)
LEMMA MatchVerifies ==
  ASSUME NEW d \in Database, ReceiptsMatch(d)
  PROVE  LedgerVerifies(d)
<1>1. d.events \in Seq(Event) /\ Len(d.events) \in Nat
  BY DatabaseTypes
<1>2. \A i \in 1..Len(d.events) : d.events[i].req.cid \in CommandIds
  BY <1>1, EventTypes, EnvelopeTypes
<1>3. ASSUME NEW i \in 1..Len(d.events)
      PROVE  d.receipts[d.events[i].req.cid] # NoReceipt
  <2>1. d.events[i].rev \in Nat /\ d.events[i].req \in Envelope
    BY <1>1, EventTypes
  <2>2. PICK receipt : receipt = [req |-> d.events[i].req, rev |-> d.events[i].rev, seq |-> i]
    OBVIOUS
  <2>3. receipt \in Receipt
    BY <1>1, <2>1, <2>2 DEF Receipt
  <2> QED BY <2>2, <2>3, StoreAssumption DEF ReceiptsMatch
<1>4. ASSUME NEW c \in CommandIds, d.receipts[c] # NoReceipt
      PROVE  /\ {i \in 1..Len(d.events) : d.events[i].req.cid = c} = {d.receipts[c].seq}
             /\ d.events[d.receipts[c].seq] = [rev |-> d.receipts[c].rev,
                                               req |-> d.receipts[c].req]
  <2>1. PICK k \in 1..Len(d.events) : d.events[k].req.cid = c
    BY <1>4 DEF ReceiptsMatch
  <2>2. \A i \in 1..Len(d.events) : d.events[i].req.cid = c =>
          d.receipts[c] = [req |-> d.events[i].req, rev |-> d.events[i].rev, seq |-> i]
    BY DEF ReceiptsMatch
  <2>3. \A i \in 1..Len(d.events) : d.events[i].req.cid = c =>
          /\ d.receipts[c].seq = i /\ d.receipts[c].rev = d.events[i].rev
          /\ d.receipts[c].req = d.events[i].req
    <3> SUFFICES ASSUME NEW i \in 1..Len(d.events), d.events[i].req.cid = c
                 PROVE  /\ d.receipts[c].seq = i /\ d.receipts[c].rev = d.events[i].rev
                        /\ d.receipts[c].req = d.events[i].req
      OBVIOUS
    <3>1. PICK r : r = [req |-> d.events[i].req, rev |-> d.events[i].rev, seq |-> i]
      OBVIOUS
    <3>2. d.receipts[c] = r
      BY <2>2, <3>1
    <3> QED BY <3>1, <3>2
  <2>4. /\ d.receipts[c].seq = k /\ d.receipts[c].rev = d.events[k].rev
        /\ d.receipts[c].req = d.events[k].req
    BY <2>1, <2>3
  <2>5. {i \in 1..Len(d.events) : d.events[i].req.cid = c} = {k}
    BY <2>1, <2>3, <2>4
  <2>6. d.events[k] = [rev |-> d.events[k].rev, req |-> d.events[k].req]
    BY <1>1, EventTypes
  <2> QED BY <2>4, <2>5, <2>6
<1> QED BY <1>3, <1>4 DEF LedgerVerifies

(* Whatever clients sent and whenever the host died, the next startup      *)
(* accepts the ledger.                                                     *)
THEOREM LedgerAccepted ==
  Spec => []StartupAcceptsLedger
<1>1. Inv => StartupAcceptsLedger
  BY MatchVerifies DEF Inv, Sound, StartupAcceptsLedger, ReplaySucceeds, Applies
<1> QED BY Invariance, <1>1, PTL

(* From verification on, the incrementally maintained rows and cursors are *)
(* those of a replay of the whole log.                                     *)
THEOREM ProjectionsFaithful ==
  Spec => []ProjectionsMatchReplay
<1>1. Inv => ProjectionsMatchReplay
  BY DEF Inv, Imports, ProjectionsMatchReplay
<1> QED BY Invariance, <1>1, PTL

(* A sequence that another one keeps is its prefix.                        *)
LEMMA KeptIsPrefix ==
  ASSUME NEW T, NEW s \in Seq(T), NEW t \in Seq(T), Len(s) <= Len(t),
         \A i \in 1..Len(s) : t[i] = s[i]
  PROVE  SubSeq(t, 1, Len(s)) = s
OBVIOUS

(* Events and audit records are only ever appended, and a receipt never    *)
(* changes: not by a commit, a rebuild, a recovery, a crash or damage.     *)
THEOREM AppendOnly ==
  Spec => LedgerIsAppendOnly
<1>1. Inv /\ [Next]_vars =>
        [ /\ SubSeq(db'.events, 1, Len(db.events)) = db.events
          /\ SubSeq(db'.audit, 1, Len(db.audit)) = db.audit
          /\ \A c \in CommandIds : db.receipts[c] # NoReceipt =>
                                      db'.receipts[c] = db.receipts[c] ]_vars
  <2> SUFFICES ASSUME Inv, [Next]_vars
               PROVE  /\ SubSeq(db'.events, 1, Len(db.events)) = db.events
                      /\ SubSeq(db'.audit, 1, Len(db.audit)) = db.audit
                      /\ \A c \in CommandIds : db.receipts[c] # NoReceipt =>
                                                  db'.receipts[c] = db.receipts[c]
    OBVIOUS
  <2>1. Keeps(db, db') /\ db \in Database /\ db' \in Database
    BY StepInv DEF Inv, Sound
  <2>2. /\ db.events \in Seq(Event) /\ db'.events \in Seq(Event)
        /\ db.audit \in Seq(Audit) /\ db'.audit \in Seq(Audit)
    BY <2>1, DatabaseTypes
  <2>3. SubSeq(db'.events, 1, Len(db.events)) = db.events
    BY <2>1, <2>2, KeptIsPrefix DEF Keeps
  <2>4. SubSeq(db'.audit, 1, Len(db.audit)) = db.audit
    BY <2>1, <2>2, KeptIsPrefix DEF Keeps
  <2> QED BY <2>1, <2>3, <2>4 DEF Keeps
<1> QED BY Invariance, <1>1, PTL DEF Spec, LedgerIsAppendOnly
=============================================================================
