-------------------------- MODULE StoreFilesProofs --------------------------
(***************************************************************************)
(* The properties of StoreFiles, for any number of versions and schemas.   *)
(* What the host does to its database and its copies is settled by HostInv,*)
(* and RestoreInv follows a restore file by file: until the copy is        *)
(* installed, and again once a rollback is over, what the restore found is *)
(* complete, partly at its own path and partly at the rollback path.       *)
(*                                                                         *)
(* Two failures are not harmless.  If the first rename fails, the rollback *)
(* removes the database that is still in its place (store_rollback_copy).  *)
(* If that removal fails, the old WAL returns to the side of the installed *)
(* copy.  Each conjunct of RestoreInv, and each theorem, excludes only the *)
(* failures that it does not survive.                                      *)
(***************************************************************************)
EXTENDS StoreFiles, TLAPS

(* The WAL that a database needs is there.                                 *)
Needs(db, wal) == db.behind => wal # NoFile /\ wal.v = db.v /\ wal.schema = db.schema

(* A WAL that is there is that of its database, and is there if it is      *)
(* needed.                                                                 *)
Fits(db, wal) ==
  /\ wal # NoFile => wal.v = db.v /\ wal.schema = db.schema
  /\ db.behind => wal # NoFile

HostPhases == {"open"} \cup OpenPhases \cup BackupPhases

(* The database under the host, and the copies it makes.                   *)
Hosted ==
  /\ pc \in HostPhases => \A part \in Parts : main[part] \in Contents
  /\ pc \in {"upgrade_create", "upgrade_copy"} => main["db"].schema # 0
  /\ pc = "migrate" /\ main["db"].schema # 0 => preUpgrade = Whole(main["db"])
  /\ pc = "backup_link" => temporary = Whole(main["db"])
  /\ pc \in {"validate", "move_db", "move_wal", "move_shm", "install"} =>
       temporary \in Contents

HostInv == TypeOK /\ Hosted /\ SchemaFitsProgram

(* Only a database file can be behind.                                     *)
CopiesWhole ==
  /\ main["wal"] # NoFile => ~main["wal"].behind
  /\ aside["wal"] # NoFile => ~aside["wal"].behind
  /\ backup \in Contents => ~backup.behind
  /\ preUpgrade \in Contents => ~preUpgrade.behind
  /\ pc = "backup_link" => ~temporary.behind

KeptWal == IF aside["wal"] # NoFile THEN aside["wal"] ELSE main["wal"]

(* While no restore is under way, none is remembered.                      *)
NoRestore == pc \in HostPhases => before = NoFile /\ result = "none"

(* Until the first rename everything is in its place.                      *)
InPlace ==
  pc \in {"restore_copy", "validate", "move_db"} =>
    moved = {} /\ aside = Nothing /\ main["db"] = before

Prepared ==
  pc \in {"validate", "move_db", "move_wal", "move_shm", "install"} =>
    temporary.v = source /\ ~temporary.behind

Rearranged == InstallPhases \ {"move_db"}

(* From then on what was moved is at one of the two paths.                 *)
Apart ==
  pc \in Rearranged =>
    /\ \A part \in Parts : aside[part] # NoFile => part \in moved
    /\ "db" \in moved => before # NoFile /\ aside["db"] = before /\ Needs(before, KeptWal)
    /\ "undo" \notin Failable /\ "db" \in moved => Fits(before, KeptWal)
    /\ "move_db" \notin Failable /\ before # NoFile => "db" \in moved
    /\ pc = "move_wal" => "wal" \notin moved
    /\ pc # "rollback_db" /\ "wal" \in moved => aside["wal"] # NoFile

RollbackPhases == {"rollback_shm", "rollback_wal", "rollback_db"}

Absent ==
  /\ pc \in {"move_wal", "move_shm", "install"} => main["db"] = NoFile
  /\ "undo" \notin Failable /\ pc \in RollbackPhases => main["db"] = NoFile
  /\ pc \in {"move_shm", "install", "check"} \cup CleanupPhases => main["wal"] = NoFile
  /\ pc \in {"rollback_wal", "rollback_db"} => aside["shm"] = NoFile
  /\ pc = "rollback_db" => aside["wal"] = NoFile

(* A rollback that finds a database with its WAL has nothing to return.    *)
Untouched ==
  pc \in {"undo"} \cup RollbackPhases /\ main["db"] # NoFile /\ main["db"].behind => moved = {}

Readable == main["db"] # NoFile => Needs(main["db"], main["wal"])

Installed ==
  pc \in {"check"} \cup CleanupPhases =>
    main["db"] \in Contents /\ main["db"].v = source /\ ~main["db"].behind

(* What is left of the old database while it is removed.                   *)
LeftAside ==
  pc \in CleanupPhases =>
    /\ aside["db"] # NoFile => aside["db"] = before /\ Needs(before, aside["wal"])
    /\ pc # "cleanup_db" => aside["db"] = NoFile
    /\ pc \in {"cleanup_shm", "cleanup_sync"} => aside["wal"] = NoFile
    /\ pc = "cleanup_sync" => aside["shm"] = NoFile

Pending == pc \in RestorePhases => result = "none"

RestoreInv ==
  /\ CopiesWhole /\ NoRestore /\ InPlace /\ Prepared /\ Apart /\ Absent /\ Installed
  /\ LeftAside /\ Pending /\ Untouched /\ Readable
  /\ "undo" \notin Failable => Coherent
  /\ "move_db" \notin Failable => RollbackCopyKept
  /\ Failable \cap {"move_db", "undo"} = {} => RestoreResultHolds

FilesInv == HostInv /\ RestoreInv

-----------------------------------------------------------------------------

(* Contents of files.                                                      *)
LEMMA ContentsTypes ==
  ASSUME NEW f \in Contents
  PROVE  /\ f # NoFile /\ f # Foreign
         /\ f.v \in Versions /\ f.schema \in Schemas \cup {0} /\ f.behind \in BOOLEAN
         /\ Whole(f) \in Contents
         /\ Whole(f).v = f.v /\ Whole(f).schema = f.schema /\ Whole(f).behind = FALSE
         /\ ~f.behind => Whole(f) = f
BY FilesAssumption DEF Contents, Whole

(* A file of given contents.                                               *)
LEMMA FileTyped ==
  ASSUME NEW v \in Versions, NEW schema \in Schemas \cup {0}, NEW behind \in BOOLEAN
  PROVE  /\ File(v, schema, behind) \in Contents
         /\ File(v, schema, behind).v = v
         /\ File(v, schema, behind).schema = schema
         /\ File(v, schema, behind).behind = behind
BY DEF File, Contents

(* A WAL of given contents.                                                *)
LEMMA WalTyped ==
  ASSUME NEW v \in Versions, NEW schema \in Schemas \cup {0}
  PROVE  /\ File(v, schema, FALSE) \in Contents /\ File(v, schema, FALSE) # NoFile
         /\ File(v, schema, FALSE).v = v
         /\ File(v, schema, FALSE).schema = schema
         /\ ~File(v, schema, FALSE).behind
<1>1. PICK behind \in BOOLEAN : behind = FALSE
  OBVIOUS
<1>2. File(v, schema, behind) \in Contents /\ File(v, schema, behind).behind = behind
  BY FileTyped
<1> QED BY <1>1, <1>2, FilesAssumption DEF File

(* What is left when the connection is closed.                             *)
LEMMA CheckpointedTyped ==
  ASSUME NEW db \in Contents
  PROVE  /\ Checkpointed(db) \in [Parts -> Contents \cup {NoFile}]
         /\ Checkpointed(db)["db"] = Whole(db)
         /\ Checkpointed(db)["wal"] = NoFile
BY ContentsTypes DEF Checkpointed, Parts

(* Every step keeps the types, and the host on a database of its schema.   *)
(* What the host commits has the schema of its build.                      *)
LEMMA HostedFiles ==
  ASSUME HostInv, NEW v \in Versions, NEW behind \in BOOLEAN,
         main' = [part \in Parts |-> File(v, program, part = "db" /\ behind)],
         pc' \in {"open", "open_repair"}, UNCHANGED <<restore, temporary, backup, upgrade>>
  PROVE  HostInv'
<1>1. program \in Schemas
  BY DEF HostInv, TypeOK
<1>2. ASSUME NEW part \in Parts
      PROVE  main'[part] \in Contents /\ main'[part].schema = program
  <2>1. PICK late \in BOOLEAN : late = (part = "db" /\ behind)
    OBVIOUS
  <2>2. main'[part] = File(v, program, late)
    BY <2>1
  <2> QED BY <1>1, <2>2, FileTyped
<1>3. main' \in [Parts -> Contents \cup {NoFile}]
  BY <1>2
<1>4. TypeOK'
  BY <1>3 DEF HostInv, TypeOK, restore, upgrade, OpenPhases
<1>5. Hosted' /\ SchemaFitsProgram'
  BY <1>2 DEF Hosted, SchemaFitsProgram, upgrade, Parts
<1> QED BY <1>4, <1>5 DEF HostInv

LEMMA HostStep ==
  ASSUME HostInv, [Next]_vars
  PROVE  HostInv'
<1> USE DEF HostPhases, OpenPhases, BackupPhases, RestorePhases, InstallPhases, CleanupPhases
<1>1. CASE OpenStore
  <2>1. PICK db \in Contents :
           /\ db.behind => db = main["db"]
           /\ main' = [part \in Parts |-> IF part = "db" THEN db
                                          ELSE File(db.v, db.schema, FALSE)]
    <3>1. File(0, 0, FALSE) \in Contents /\ ~File(0, 0, FALSE).behind
      <4>1. 0 \in Versions
        BY FilesAssumption DEF Versions
      <4> QED BY <4>1, FileTyped
    <3>2. main["db"] \in Contents \cup {NoFile}
      BY DEF HostInv, TypeOK, Parts
    <3> QED BY <1>1, <3>1, <3>2 DEF OpenStore
  <2>2. File(db.v, db.schema, FALSE) \in Contents
    BY ContentsTypes, FileTyped
  <2>3. \A part \in Parts : main'[part] \in Contents
    BY <2>1, <2>2
  <2>4. main' \in [Parts -> Contents \cup {NoFile}]
    BY <2>1, <2>2
  <2>5. aside' \in [Parts -> Contents \cup {NoFile}] /\ source' \in Versions
    BY <1>1, FilesAssumption DEF OpenStore, Nothing, Versions
  <2>6. TypeOK'
    BY <1>1, <2>4, <2>5 DEF OpenStore, HostInv, TypeOK, upgrade, Results
  <2> QED BY <1>1, <2>3, <2>6 DEF OpenStore, HostInv, Hosted, SchemaFitsProgram, upgrade
<1>2. CASE CheckSchema
  <2>1. main["db"] \in Contents
    BY <1>2 DEF CheckSchema, HostInv, Hosted, Parts
  <2>2. CASE OpenFails
    BY <1>2, <2>1, <2>2, CheckpointedTyped
       DEF OpenFails, CheckSchema, HostInv, TypeOK, Hosted, SchemaFitsProgram, upgrade,
           restore
  <2>3. CASE ~OpenFails
    <3>1. /\ main' = main /\ pc' \in {"open_repair", "upgrade_create", "migrate"}
          /\ pc' = "open_repair" => main["db"].schema = program
          /\ pc' = "upgrade_create" => main["db"].schema > 0
          /\ pc' = "migrate" => ~(main["db"].schema > 0)
      BY <1>2, <2>3 DEF CheckSchema
    <3>2. PICK schema \in Schemas \cup {0} : schema = main["db"].schema
      BY <2>1, ContentsTypes
    <3>3. schema > 0 <=> schema # 0
      BY FilesAssumption DEF Schemas
    <3>4. \A part \in Parts : main[part] \in Contents
      BY <1>2 DEF CheckSchema, HostInv, Hosted
    <3>5. UNCHANGED <<restore, temporary, backup, upgrade>>
      BY <1>2 DEF CheckSchema
    <3>6. TypeOK'
      BY <3>1, <3>5 DEF HostInv, TypeOK, restore, upgrade
    <3>7. Hosted' /\ SchemaFitsProgram'
      BY <3>1, <3>2, <3>3, <3>4, <3>5 DEF Hosted, SchemaFitsProgram, upgrade
    <3> QED BY <3>6, <3>7 DEF HostInv
  <2> QED BY <2>2, <2>3
<1>3. CASE CreatePreUpgrade
  <2>1. main["db"] \in Contents
    BY <1>3 DEF CreatePreUpgrade, HostInv, Hosted, Parts
  <2> QED BY <1>3, <2>1, CheckpointedTyped
             DEF OpenFails, CreatePreUpgrade, HostInv, TypeOK, Hosted, SchemaFitsProgram,
                 restore
<1>4. CASE CopyPreUpgrade
  <2>1. main["db"] \in Contents
    BY <1>4 DEF CopyPreUpgrade, HostInv, Hosted, Parts
  <2>2. /\ UNCHANGED <<restore, temporary, backup, program>>
        /\ preUpgrade' \in {Whole(main["db"]), preUpgrade}
        /\ \/ OpenFails
           \/ pc' = "migrate" /\ main' = main /\ preUpgrade' = Whole(main["db"])
    BY <1>4 DEF CopyPreUpgrade
  <2>3. preUpgrade' \in Contents \cup {NoFile, Foreign}
    <3>1. Whole(main["db"]) \in Contents
      BY <2>1, ContentsTypes
    <3> QED BY <2>2, <3>1 DEF HostInv, TypeOK
  <2>4. CASE OpenFails
    BY <2>1, <2>2, <2>3, <2>4, CheckpointedTyped
       DEF OpenFails, HostInv, TypeOK, Hosted, SchemaFitsProgram, restore
  <2>5. CASE pc' = "migrate" /\ main' = main /\ preUpgrade' = Whole(main["db"])
    <3>1. \A part \in Parts : main[part] \in Contents
      BY <1>4 DEF CopyPreUpgrade, HostInv, Hosted
    <3> QED BY <2>2, <2>3, <2>5, <3>1 DEF HostInv, TypeOK, Hosted, SchemaFitsProgram,
                                          restore
  <2> QED BY <2>2, <2>4, <2>5
<1>5. CASE Migrate
  <2>1. main["db"] \in Contents
    BY <1>5 DEF Migrate, HostInv, Hosted, Parts
  <2>2. UNCHANGED <<restore, temporary, backup, upgrade>>
    BY <1>5 DEF Migrate
  <2>3. CASE OpenFails
    BY <2>1, <2>2, <2>3, CheckpointedTyped
       DEF OpenFails, HostInv, TypeOK, Hosted, SchemaFitsProgram, restore, upgrade
  <2>4. CASE ~OpenFails
    <3>1. PICK behind \in BOOLEAN :
            /\ main' = [part \in Parts |-> File(main["db"].v, program, part = "db" /\ behind)]
            /\ pc' = "open_repair"
      BY <1>5, <2>4 DEF Migrate
    <3> QED BY <2>1, <2>2, <3>1, ContentsTypes, HostedFiles
  <2> QED BY <2>3, <2>4
<1>6. CASE FinishOpen
  <2>1. main["db"] \in Contents
    BY <1>6 DEF FinishOpen, HostInv, Hosted, Parts
  <2> QED BY <1>6, <2>1, CheckpointedTyped
             DEF OpenFails, FinishOpen, HostInv, TypeOK, Hosted, SchemaFitsProgram,
                 restore, upgrade
<1>7. CASE ReplaceProgram
  BY <1>7 DEF ReplaceProgram, HostInv, TypeOK, Hosted, SchemaFitsProgram, restore
<1>8. CASE Work
  <2>1. main["db"] \in Contents /\ main["db"].v < MaxVersion
    BY <1>8 DEF Work, HostInv, Hosted, Parts
  <2>2. main["db"].v + 1 \in Versions
    <3>1. PICK v \in Versions : v = main["db"].v
      BY <2>1, ContentsTypes
    <3> QED BY <2>1, <3>1, FilesAssumption DEF Versions
  <2>3. PICK behind \in BOOLEAN :
          /\ main' = [part \in Parts |->
                        File(main["db"].v + 1, program, part = "db" /\ behind)]
          /\ pc' = "open" /\ UNCHANGED <<restore, temporary, backup, upgrade>>
    BY <1>8 DEF Work
  <2> QED BY <2>2, <2>3, HostedFiles
<1>9. CASE CloseStore
  <2>1. main["db"] \in Contents
    BY <1>9 DEF CloseStore, HostInv, Hosted, Parts
  <2> QED BY <1>9, <2>1, CheckpointedTyped
             DEF CloseStore, HostInv, TypeOK, Hosted, SchemaFitsProgram, restore, upgrade
<1>10. CASE StartBackup \/ CopyBackup \/ LinkBackup \/ SyncBackup
  <2>1. main["db"] \in Contents
    BY <1>10 DEF StartBackup, CopyBackup, LinkBackup, SyncBackup, HostInv, Hosted, Parts
  <2> QED BY <1>10, <2>1, ContentsTypes DEF StartBackup, CopyBackup, LinkBackup,
                                            SyncBackup, HostInv, TypeOK, Hosted,
                                            SchemaFitsProgram, restore, upgrade
<1>11. CASE Others
  BY <1>11 DEF Others, HostInv, TypeOK, Hosted, SchemaFitsProgram, restore, upgrade
<1>12. CASE StartRestore
  BY <1>12, FilesAssumption DEF StartRestore, HostInv, TypeOK, Hosted, SchemaFitsProgram,
                                upgrade, Nothing, Versions, Results, Parts
<1>13. CASE CopySource
  BY <1>13, ContentsTypes DEF CopySource, ValidHistory, Fail, HostInv, TypeOK, Hosted,
                              SchemaFitsProgram, upgrade, Results
<1>14. CASE ValidateCopy
  <2>1. [temporary EXCEPT !.schema = program] \in Contents
    BY <1>14 DEF ValidateCopy, HostInv, TypeOK, Hosted, Contents
  <2> QED BY <1>14, <2>1 DEF ValidateCopy, Fail, HostInv, TypeOK, Hosted,
                             SchemaFitsProgram, upgrade, Results
<1>15. ASSUME NEW part \in Parts, MoveAside(part) PROVE HostInv'
  <2>1. /\ pc \in {"move_db", "move_wal", "move_shm"}
        /\ pc' \in {"move_wal", "move_shm", "install", "undo"}
        /\ UNCHANGED <<temporary, backup, before, source, result, upgrade>>
        /\ \/ UNCHANGED <<main, aside, moved>>
           \/ /\ aside' = [aside EXCEPT ![part] = main[part]]
              /\ main' = [main EXCEPT ![part] = NoFile]
              /\ moved' = moved \cup {part}
    BY <1>15 DEF MoveAside, MoveSteps, AfterMove, Parts
  <2>2. main[part] \in Contents \cup {NoFile}
    BY DEF HostInv, TypeOK
  <2>3. TypeOK'
    BY <2>1, <2>2 DEF HostInv, TypeOK, upgrade
  <2>4. Hosted' /\ SchemaFitsProgram'
    BY <2>1 DEF HostInv, Hosted, SchemaFitsProgram
  <2> QED BY <2>3, <2>4 DEF HostInv
<1>16. CASE InstallCopy \/ CheckInstalled \/ RemoveInstalled
  BY <1>16 DEF InstallCopy, CheckInstalled, RemoveInstalled, HostInv, TypeOK, Hosted,
               SchemaFitsProgram, upgrade, restore, Parts
<1>17. ASSUME NEW part \in Parts, MoveBack(part) PROVE HostInv'
  BY <1>17 DEF MoveBack, RollbackSteps, Fail, Parts, HostInv, TypeOK, Hosted,
               SchemaFitsProgram, upgrade, Results
<1>18. ASSUME NEW part \in Parts, RemoveAside(part) PROVE HostInv'
  BY <1>18 DEF RemoveAside, CleanupSteps, AfterCleanup, Parts, HostInv, TypeOK, Hosted,
               SchemaFitsProgram, upgrade, Results
<1>21. CASE SyncRemoved
  BY <1>21 DEF SyncRemoved, HostInv, TypeOK, Hosted, SchemaFitsProgram, upgrade, Results
<1>19. CASE Crash
  BY <1>19 DEF Crash, HostInv, TypeOK, Hosted, SchemaFitsProgram, upgrade, Results
<1>20. CASE UNCHANGED vars
  BY <1>20 DEF vars, HostInv, TypeOK, Hosted, SchemaFitsProgram, upgrade
<1> QED BY <1>1, <1>2, <1>3, <1>4, <1>5, <1>6, <1>7, <1>8, <1>9, <1>10, <1>11, <1>12,
           <1>13, <1>14, <1>15,
   <1>16, <1>17, <1>18, <1>19, <1>20, <1>21 DEF Next, Restore

-----------------------------------------------------------------------------
(* Where everything is while files are restored.                           *)

(* A database whose WAL is its own can be read.                            *)
LEMMA CoherentReadable ==
  ASSUME Coherent
  PROVE  Readable
BY DEF Coherent, Readable, Needs

(* Without a restore, only the copies and the WAL matter.                  *)
LEMMA NothingRestored ==
  ASSUME pc' \in HostPhases \cup {"idle"}, before' = NoFile, result' = "none",
         CopiesWhole', Readable', "undo" \notin Failable => Coherent'
  PROVE  RestoreInv'
<1> USE DEF HostPhases, OpenPhases, BackupPhases, RestorePhases, InstallPhases, CleanupPhases,
            RollbackPhases
<1>1. /\ NoRestore' /\ InPlace' /\ Prepared' /\ Absent' /\ Installed' /\ LeftAside'
      /\ Pending' /\ Untouched'
  BY DEF NoRestore, InPlace, Prepared, Absent, Installed, LeftAside, Pending, Untouched
<1>2. Apart'
  BY DEF Apart, Rearranged
<1>3. RestoreResultHolds' /\ RollbackCopyKept'
  BY DEF RestoreResultHolds, RollbackCopyKept
<1> QED BY <1>1, <1>2, <1>3 DEF RestoreInv

(* A connection that is closed leaves the database whole and without a WAL.*)
LEMMA ClosedCoherent ==
  ASSUME HostInv, main["db"] \in Contents, main' = Checkpointed(main["db"])
  PROVE  Coherent' /\ Readable' /\ main'["wal"] = NoFile
BY CheckpointedTyped, ContentsTypes DEF Coherent, Readable, Needs

(* What the host commits is in the database or in its WAL.                 *)
LEMMA WrittenCoherent ==
  ASSUME NEW v \in Versions, NEW schema \in Schemas \cup {0}, NEW behind \in BOOLEAN,
         main' = [part \in Parts |-> File(v, schema, part = "db" /\ behind)]
  PROVE  Coherent' /\ Readable' /\ ~main'["wal"].behind
<1>1. main'["db"] = File(v, schema, behind) /\ main'["wal"] = File(v, schema, FALSE)
  <2>1. ("db" = "db" /\ behind) = behind /\ ("wal" = "db" /\ behind) = FALSE
    OBVIOUS
  <2>2. "db" \in Parts /\ "wal" \in Parts
    BY DEF Parts
  <2> QED BY <2>1, <2>2
<1>2. PICK wal : wal = File(v, schema, FALSE) /\ wal # NoFile
                 /\ wal.v = v /\ wal.schema = schema /\ ~wal.behind
  BY WalTyped
<1>3. PICK db : db = File(v, schema, behind) /\ db.v = v /\ db.schema = schema
  BY FileTyped
<1> QED BY <1>1, <1>2, <1>3 DEF Coherent, Readable, Needs

HostActions ==
  \/ OpenStore \/ CheckSchema \/ CreatePreUpgrade \/ CopyPreUpgrade \/ Migrate \/ FinishOpen
  \/ Work \/ CloseStore \/ StartBackup \/ CopyBackup \/ LinkBackup \/ SyncBackup

(* No step of the host involves a restore.                                 *)
LEMMA HostRestoreStep ==
  ASSUME HostInv, HostInv', RestoreInv, HostActions
  PROVE  RestoreInv'
<1> USE DEF HostPhases, OpenPhases, BackupPhases
<1>1. CASE OpenStore
  <2>1. PICK db \in Contents :
           /\ db.behind => db = main["db"]
           /\ main' = [part \in Parts |-> IF part = "db" THEN db
                                          ELSE File(db.v, db.schema, FALSE)]
    <3>1. File(0, 0, FALSE) \in Contents /\ ~File(0, 0, FALSE).behind
      <4>1. 0 \in Versions
        BY FilesAssumption DEF Versions
      <4> QED BY <4>1, FileTyped
    <3>2. main["db"] \in Contents \cup {NoFile}
      BY DEF HostInv, TypeOK, Parts
    <3> QED BY <1>1, <3>1, <3>2 DEF OpenStore
  <2>2. main'["db"] = db /\ main'["wal"] = File(db.v, db.schema, FALSE)
    BY <2>1 DEF Parts
  <2>3. /\ File(db.v, db.schema, FALSE) \in Contents
        /\ File(db.v, db.schema, FALSE).v = db.v
        /\ File(db.v, db.schema, FALSE).schema = db.schema
        /\ ~File(db.v, db.schema, FALSE).behind
    <3>1. PICK v \in Versions, schema \in Schemas \cup {0} : v = db.v /\ schema = db.schema
      BY ContentsTypes
    <3> QED BY <3>1, WalTyped
  <2>4. Coherent' /\ Readable' /\ ~main'["wal"].behind
    BY <2>2, <2>3, ContentsTypes DEF Coherent, Readable, Needs
  <2>5. aside'["wal"] = NoFile /\ UNCHANGED <<temporary, backup, upgrade>>
    BY <1>1 DEF OpenStore, Nothing, Parts
  <2>6. CopiesWhole'
    BY <1>1, <2>4, <2>5 DEF RestoreInv, CopiesWhole, OpenStore, upgrade
  <2> QED BY <1>1, <2>4, <2>6, NothingRestored DEF OpenStore
<1>2. CASE ~OpenStore
  <2>1. /\ pc \in HostPhases /\ pc' \in HostPhases \cup {"idle"}
        /\ UNCHANGED restore
    BY <1>2 DEF HostActions, CheckSchema, CreatePreUpgrade, CopyPreUpgrade, Migrate,
                FinishOpen,
                Work, CloseStore, StartBackup, CopyBackup, LinkBackup, SyncBackup,
                OpenFails, restore
  <2>2. before' = NoFile /\ result' = "none" /\ aside' = aside
    BY <2>1 DEF RestoreInv, NoRestore, restore
  <2>3. main["db"] \in Contents /\ program \in Schemas
    BY <2>1 DEF HostInv, TypeOK, Hosted, Parts
  <2>4. \/ UNCHANGED main
        \/ main' = Checkpointed(main["db"])
        \/ \E v \in Versions, behind \in BOOLEAN :
             main' = [part \in Parts |-> File(v, program, part = "db" /\ behind)]
    <3>1. CASE Work
      <4>1. main["db"].v + 1 \in Versions
        <5>1. PICK v \in Versions : v = main["db"].v
          BY <2>3, ContentsTypes
        <5> QED BY <3>1, <5>1, FilesAssumption DEF Work, Versions
      <4> QED BY <3>1, <4>1 DEF Work
    <3>2. CASE Migrate
      BY <2>3, <3>2, ContentsTypes DEF Migrate, OpenFails
    <3>3. CASE ~Work /\ ~Migrate
      BY <1>2, <3>3 DEF HostActions, CheckSchema, CreatePreUpgrade, CopyPreUpgrade,
                        FinishOpen,
                CloseStore, StartBackup, CopyBackup, LinkBackup, SyncBackup, OpenFails
    <3> QED BY <3>1, <3>2, <3>3
  <2>5. /\ Readable' /\ ("undo" \notin Failable => Coherent')
        /\ main'["wal"] # NoFile => ~main'["wal"].behind
    <3>1. CASE UNCHANGED main
      BY <3>1 DEF RestoreInv, Coherent, Readable, CopiesWhole
    <3>2. CASE ~UNCHANGED main
      BY <2>3, <2>4, <3>2, ClosedCoherent, WrittenCoherent
    <3> QED BY <3>1, <3>2
  <2>6. /\ preUpgrade' \in {preUpgrade, Foreign, Whole(main["db"])}
        /\ backup' \in {backup, temporary}
        /\ backup' # backup => pc = "backup_link"
        /\ pc' = "backup_link" => temporary' = Whole(main["db"])
    BY <1>2 DEF HostActions, CheckSchema, CreatePreUpgrade, CopyPreUpgrade, Migrate,
                FinishOpen,
                Work, CloseStore, StartBackup, CopyBackup, LinkBackup, SyncBackup,
                OpenFails, upgrade
  <2>7. CopiesWhole'
    BY <2>2, <2>3, <2>5, <2>6, ContentsTypes DEF RestoreInv, CopiesWhole
  <2> QED BY <2>1, <2>2, <2>5, <2>7, NothingRestored
<1> QED BY <1>1, <1>2

(* What others do to the backup, and a new build, change nothing else.     *)
LEMMA OthersRestoreStep ==
  ASSUME HostInv, RestoreInv, Others \/ ReplaceProgram \/ UNCHANGED vars
  PROVE  RestoreInv'
<1>1. /\ UNCHANGED <<main, restore, temporary, pc, preUpgrade>>
      /\ backup' \in {backup, Foreign, preUpgrade, NoFile}
  BY DEF Others, ReplaceProgram, vars, upgrade, restore
<1>2. CopiesWhole'
  BY <1>1, FilesAssumption DEF RestoreInv, CopiesWhole, restore
<1>3. /\ NoRestore' /\ InPlace' /\ Prepared' /\ Absent' /\ Installed' /\ LeftAside' /\ Pending'
      /\ Untouched' /\ Readable'
      /\ Coherent' = Coherent
      /\ RestoreResultHolds' = RestoreResultHolds
      /\ RollbackCopyKept' = RollbackCopyKept
  <2>1. UNCHANGED <<main, aside, moved, before, source, result, pc, temporary>>
    BY <1>1 DEF restore
  <2>2. RestoreResultHolds' = RestoreResultHolds
    BY <2>1 DEF RestoreResultHolds, Replaced
  <2>3. LeftAside'
    BY <2>1 DEF RestoreInv, LeftAside, Needs
  <2> QED BY <2>1, <2>2, <2>3
          DEF RestoreInv, NoRestore, InPlace, Prepared, Absent, Installed, Pending,
              Untouched, Readable, Coherent, RollbackCopyKept
<1>4. Apart'
  BY <1>1 DEF RestoreInv, Apart, KeptWal, Fits, Needs, restore
<1> QED BY <1>2, <1>3, <1>4 DEF RestoreInv

(* The transactions of the WAL of a database are those the database misses.*)
LEMMA FitIsWhole ==
  ASSUME NEW db \in Contents, NEW wal \in Contents, Needs(db, wal), db.behind, ~wal.behind
  PROVE  wal = Whole(db)
BY FilesAssumption DEF Needs, Whole, Contents

(* What a restore finds is remembered.                                     *)
LEMMA StartStep ==
  ASSUME HostInv, RestoreInv, StartRestore
  PROVE  RestoreInv'
<1> USE DEF HostPhases, OpenPhases, BackupPhases, RestorePhases, InstallPhases, CleanupPhases
<1>1. /\ pc' = "restore_copy" /\ aside' = Nothing /\ moved' = {} /\ before' = main["db"]
      /\ result' = "none" /\ UNCHANGED <<main, temporary, backup, upgrade>>
  BY DEF StartRestore
<1>2. main["db"] \in Contents \cup {NoFile} /\ main["wal"] \in Contents \cup {NoFile}
  BY DEF HostInv, TypeOK, Parts
<1>3. CopiesWhole' /\ Readable' /\ ("undo" \notin Failable => Coherent')
  BY <1>1 DEF RestoreInv, CopiesWhole, Coherent, Readable, Nothing, Parts, upgrade
<1>4. /\ NoRestore' /\ InPlace' /\ Prepared' /\ Absent' /\ Installed' /\ LeftAside' /\ Pending'
      /\ Apart' /\ Untouched'
  BY <1>1 DEF NoRestore, InPlace, Prepared, Absent, Installed, LeftAside, Pending, Apart,
              Rearranged, Untouched, RollbackPhases
<1>5. RestoreResultHolds'
  BY <1>1 DEF RestoreInv, Pending, RestoreResultHolds
<1>6. RollbackCopyKept'
  <2>1. CASE main["db"] \in Contents /\ main["db"].behind
    <3>1. main["wal"] \in Contents /\ Needs(main["db"], main["wal"]) /\ ~main["wal"].behind
      BY <1>2, <2>1, FilesAssumption DEF RestoreInv, Readable, CopiesWhole, Needs
    <3>2. main["wal"] = Whole(main["db"])
      BY <2>1, <3>1, FitIsWhole
    <3> QED BY <1>1, <3>2 DEF RollbackCopyKept
  <2>2. CASE ~(main["db"] \in Contents /\ main["db"].behind)
    BY <1>1, <1>2, <2>2 DEF RollbackCopyKept
  <2> QED BY <2>1, <2>2
<1> QED BY <1>3, <1>4, <1>5, <1>6 DEF RestoreInv

(* The source is checked, copied and opened elsewhere.                     *)
LEMMA PrepareStep ==
  ASSUME HostInv, RestoreInv, CopySource \/ ValidateCopy
  PROVE  RestoreInv'
<1> USE DEF HostPhases, OpenPhases, BackupPhases, RestorePhases, InstallPhases, CleanupPhases
<1>1. /\ pc \in {"restore_copy", "validate"}
      /\ UNCHANGED <<main, aside, backup, moved, before, upgrade>>
      /\ \/ pc' = "idle" /\ result' = "failed"
         \/ pc' \in {"validate", "move_db"} /\ result' = result
  BY DEF CopySource, ValidateCopy, Fail
<1>2. pc' # "idle" => temporary'.v = source' /\ ~temporary'.behind
  <2>1. CASE CopySource
    <3>1. backup \in Contents \cup {NoFile, Foreign}
      BY DEF HostInv, TypeOK
    <3> QED BY <2>1, <3>1 DEF CopySource, ValidHistory, Fail, RestoreInv, CopiesWhole
  <2>2. CASE ValidateCopy
    <3>1. temporary \in Contents
      BY <2>2 DEF ValidateCopy, HostInv, Hosted
    <3>2. PICK copy : copy = [temporary EXCEPT !.schema = program]
      OBVIOUS
    <3>3. copy.v = temporary.v /\ copy.behind = temporary.behind
      BY <3>1, <3>2 DEF Contents
    <3>4. temporary.v = source /\ ~temporary.behind
      BY <2>2 DEF ValidateCopy, RestoreInv, Prepared
    <3> QED BY <2>2, <3>2, <3>3, <3>4 DEF ValidateCopy, Fail
  <2> QED BY <2>1, <2>2
<1>3. CopiesWhole' /\ Readable' /\ ("undo" \notin Failable => Coherent')
  BY <1>1 DEF RestoreInv, CopiesWhole, Coherent, Readable, upgrade
<1>4. /\ NoRestore' /\ InPlace' /\ Prepared' /\ Absent' /\ Installed' /\ LeftAside' /\ Pending'
      /\ Apart' /\ Untouched'
  BY <1>1, <1>2 DEF RestoreInv, NoRestore, InPlace, Prepared, Absent, Installed, LeftAside, Pending,
                    Apart, Rearranged, Untouched, RollbackPhases
<1>5. RestoreResultHolds'
  BY <1>1 DEF RestoreInv, InPlace, Pending, RestoreResultHolds
<1>6. "move_db" \notin Failable => RollbackCopyKept'
  BY <1>1 DEF RestoreInv, RollbackCopyKept
<1> QED BY <1>3, <1>4, <1>5, <1>6 DEF RestoreInv

(* A rename to the rollback path, as far as its part of the files goes.    *)
LEMMA MovedAside ==
  ASSUME HostInv, NEW part \in Parts, MoveAside(part)
  PROVE  /\ UNCHANGED <<temporary, backup, before, source, result, upgrade>>
         /\ \A other \in Parts \ {part} : main'[other] = main[other] /\ aside'[other] = aside[other]
         /\ \/ /\ main[part] = NoFile /\ pc' = AfterMove[part] /\ UNCHANGED <<main, aside, moved>>
            \/ /\ main[part] # NoFile /\ pc' = AfterMove[part] /\ moved' = moved \cup {part}
               /\ aside'[part] = main[part] /\ main'[part] = NoFile
            \/ /\ main[part] # NoFile /\ pc' = "undo" /\ UNCHANGED <<main, aside, moved>>
               /\ part = "db" => "move_db" \in Failable
<1>1. main \in [Parts -> Contents \cup {NoFile}] /\ aside \in [Parts -> Contents \cup {NoFile}]
  BY DEF HostInv, TypeOK
<1>2. part = "db" /\ "move_db" \notin Failable => Tries(MoveSteps[part]) = {TRUE}
  <2>1. MoveSteps["db"] = "move_db"
    BY DEF MoveSteps
  <2> QED BY <2>1 DEF Tries
<1> QED BY <1>1, <1>2 DEF MoveAside

(* The database goes first, or everything stays.                           *)
LEMMA MoveDatabase ==
  ASSUME HostInv, RestoreInv, MoveAside("db")
  PROVE  RestoreInv'
<1> USE DEF HostPhases, OpenPhases, BackupPhases, RestorePhases, InstallPhases, CleanupPhases,
            RollbackPhases
<1>1. "db" \in Parts /\ "wal" \in Parts \ {"db"} /\ "shm" \in Parts \ {"db"}
  BY DEF Parts
<1>2. /\ UNCHANGED <<temporary, backup, before, source, result, upgrade>>
      /\ main'["wal"] = main["wal"] /\ aside'["wal"] = aside["wal"] /\ aside'["shm"] = aside["shm"]
      /\ pc = "move_db"
      /\ \/ pc' = "move_wal" /\ main["db"] = NoFile /\ UNCHANGED <<main, aside, moved>>
         \/ /\ pc' = "move_wal" /\ main["db"] # NoFile /\ moved' = moved \cup {"db"}
            /\ aside'["db"] = main["db"] /\ main'["db"] = NoFile
         \/ /\ pc' = "undo" /\ main["db"] # NoFile /\ UNCHANGED <<main, aside, moved>>
            /\ "move_db" \in Failable
  BY <1>1, MovedAside DEF AfterMove, MoveAside, MoveSteps
<1>3. /\ moved = {} /\ main["db"] = before
      /\ aside["db"] = NoFile /\ aside["wal"] = NoFile /\ aside["shm"] = NoFile
  BY <1>2 DEF RestoreInv, InPlace, Nothing, Parts
<1>4. /\ pc' = "move_wal" => main'["db"] = NoFile /\ aside'["db"] = before
      /\ pc' = "move_wal" => moved' = IF before = NoFile THEN {} ELSE {"db"}
      /\ pc' = "undo" => UNCHANGED <<main, aside>> /\ moved' = {} /\ "move_db" \in Failable
      /\ pc' \in {"move_wal", "undo"}
  BY <1>2, <1>3
<1>5. CopiesWhole' /\ Readable' /\ ("undo" \notin Failable => Coherent')
  BY <1>2, <1>4 DEF RestoreInv, CopiesWhole, Coherent, Readable, upgrade
<1>6. /\ NoRestore' /\ InPlace' /\ Prepared' /\ Absent' /\ Installed' /\ LeftAside' /\ Pending'
      /\ Untouched'
  BY <1>2, <1>4 DEF RestoreInv, NoRestore, InPlace, Prepared, Absent, Installed, LeftAside, Pending,
                    Untouched
<1>7. Apart'
  <2>1. before # NoFile =>
          Needs(before, main["wal"]) /\ ("undo" \notin Failable => Fits(before, main["wal"]))
    BY <1>3 DEF RestoreInv, Coherent, Readable, Fits
  <2>2. KeptWal' = main["wal"]
    BY <1>2, <1>3 DEF KeptWal
  <2>3. before # NoFile =>
          Needs(before', KeptWal') /\ ("undo" \notin Failable => Fits(before', KeptWal'))
    BY <1>2, <2>1, <2>2
  <2>4. \A part \in Parts : aside'[part] # NoFile => part \in moved'
    BY <1>2, <1>3, <1>4 DEF Parts
  <2>5. /\ Needs(before', KeptWal') = Needs(before, KeptWal)'
        /\ Fits(before', KeptWal') = Fits(before, KeptWal)'
    BY DEF Needs, Fits
  <2> QED BY <1>2, <1>3, <1>4, <2>3, <2>4, <2>5 DEF Apart
<1>8. RestoreResultHolds' /\ ("move_db" \notin Failable => RollbackCopyKept')
  BY <1>2, <1>3, <1>4 DEF RestoreInv, Pending, RestoreResultHolds, RollbackCopyKept
<1> QED BY <1>5, <1>6, <1>7, <1>8 DEF RestoreInv

(* Its WAL follows, or stays if the rename fails.                          *)
LEMMA MoveWal ==
  ASSUME HostInv, RestoreInv, MoveAside("wal")
  PROVE  RestoreInv'
<1> USE DEF HostPhases, OpenPhases, BackupPhases, RestorePhases, InstallPhases, CleanupPhases,
            RollbackPhases
<1>1. "wal" \in Parts /\ "db" \in Parts \ {"wal"} /\ "shm" \in Parts \ {"wal"}
  BY DEF Parts
<1>2. /\ UNCHANGED <<temporary, backup, before, source, result, upgrade>>
      /\ main'["db"] = main["db"] /\ aside'["db"] = aside["db"] /\ aside'["shm"] = aside["shm"]
      /\ pc = "move_wal"
      /\ \/ main["wal"] = NoFile /\ pc' = "move_shm" /\ UNCHANGED <<main, aside, moved>>
         \/ /\ main["wal"] # NoFile /\ pc' = "move_shm" /\ moved' = moved \cup {"wal"}
            /\ aside'["wal"] = main["wal"] /\ main'["wal"] = NoFile
         \/ pc' = "undo" /\ UNCHANGED <<main, aside, moved>>
  BY <1>1, MovedAside DEF AfterMove, MoveAside, MoveSteps
<1>3. /\ main["db"] = NoFile /\ "wal" \notin moved /\ aside["wal"] = NoFile
      /\ \A part \in Parts : aside[part] # NoFile => part \in moved
      /\ "db" \in moved => before # NoFile /\ aside["db"] = before /\ Needs(before, KeptWal)
      /\ "undo" \notin Failable /\ "db" \in moved => Fits(before, KeptWal)
      /\ "move_db" \notin Failable /\ before # NoFile => "db" \in moved
  BY <1>1, <1>2 DEF RestoreInv, Apart, Rearranged, Absent
<1>4. CopiesWhole' /\ Readable' /\ ("undo" \notin Failable => Coherent')
  BY <1>2, <1>3 DEF RestoreInv, CopiesWhole, Coherent, Readable, Needs, upgrade
<1>5. /\ NoRestore' /\ InPlace' /\ Prepared' /\ Absent' /\ Installed' /\ LeftAside' /\ Pending'
      /\ Untouched'
  BY <1>2, <1>3 DEF RestoreInv, NoRestore, InPlace, Prepared, Absent, Installed, LeftAside, Pending,
                    Untouched
<1>6. Apart'
  <2>1. KeptWal' = KeptWal
    BY <1>2, <1>3 DEF KeptWal
  <2> QED BY <1>2, <1>3, <2>1 DEF Apart, Fits, Needs, Parts
<1>7. RestoreResultHolds'
  BY <1>2 DEF RestoreInv, Pending, RestoreResultHolds
<1>8. "move_db" \notin Failable => RollbackCopyKept'
  BY <1>2, <1>3 DEF RestoreInv, RollbackCopyKept
<1> QED BY <1>4, <1>5, <1>6, <1>7, <1>8 DEF RestoreInv

(* The shared memory holds nothing that is missed.                         *)
LEMMA MoveShm ==
  ASSUME HostInv, RestoreInv, MoveAside("shm")
  PROVE  RestoreInv'
<1> USE DEF HostPhases, OpenPhases, BackupPhases, RestorePhases, InstallPhases, CleanupPhases,
            RollbackPhases
<1>1. "shm" \in Parts /\ "db" \in Parts \ {"shm"} /\ "wal" \in Parts \ {"shm"}
  BY DEF Parts
<1>2. /\ UNCHANGED <<temporary, backup, before, source, result, upgrade>>
      /\ main'["db"] = main["db"] /\ aside'["db"] = aside["db"]
      /\ main'["wal"] = main["wal"] /\ aside'["wal"] = aside["wal"]
      /\ pc = "move_shm" /\ pc' \in {"install", "undo"}
      /\ moved \subseteq moved' /\ moved' \subseteq moved \cup {"shm"}
      /\ aside'["shm"] # NoFile => aside["shm"] # NoFile \/ "shm" \in moved'
  BY <1>1, MovedAside DEF AfterMove, MoveAside, MoveSteps
<1>3. CopiesWhole' /\ Readable' /\ ("undo" \notin Failable => Coherent')
  BY <1>2 DEF RestoreInv, CopiesWhole, Coherent, Readable, Needs, upgrade
<1>4. /\ NoRestore' /\ InPlace' /\ Prepared' /\ Absent' /\ Installed' /\ LeftAside' /\ Pending'
      /\ Untouched'
  BY <1>2 DEF RestoreInv, NoRestore, InPlace, Prepared, Absent, Installed, LeftAside, Pending,
                    Untouched
<1>5. Apart'
  <2>1. KeptWal' = KeptWal
    BY <1>2 DEF KeptWal
  <2> QED BY <1>1, <1>2, <2>1 DEF RestoreInv, Apart, Rearranged, Fits, Needs, Parts
<1>6. RestoreResultHolds'
  BY <1>2 DEF RestoreInv, Pending, RestoreResultHolds
<1>7. "move_db" \notin Failable => RollbackCopyKept'
  BY <1>2 DEF RestoreInv, RollbackCopyKept
<1> QED BY <1>3, <1>4, <1>5, <1>6, <1>7 DEF RestoreInv

(* The copy is installed where nothing is, and checked.                    *)
LEMMA InstallStep ==
  ASSUME HostInv, RestoreInv, InstallCopy \/ CheckInstalled
  PROVE  RestoreInv'
<1> USE DEF HostPhases, OpenPhases, BackupPhases, RestorePhases, InstallPhases, CleanupPhases,
            RollbackPhases
<1>1. "wal" \in Parts /\ "db" \in Parts /\ main \in [Parts -> Contents \cup {NoFile}]
  BY DEF Parts, HostInv, TypeOK
<1>2. /\ UNCHANGED <<aside, moved, before, source, result, backup, upgrade>>
      /\ main'["wal"] = main["wal"]
      /\ \/ /\ pc = "install" /\ pc' = "check" /\ main'["db"] = temporary
         \/ /\ pc = "install" /\ pc' = "undo" /\ main'["db"] = main["db"]
         \/ /\ pc = "check" /\ pc' \in {"cleanup_db", "undo"} /\ main'["db"] = main["db"]
  BY <1>1 DEF InstallCopy, CheckInstalled, restore
<1>3. pc = "install" => temporary \in Contents /\ temporary.v = source /\ ~temporary.behind
  BY DEF HostInv, Hosted, RestoreInv, Prepared
<1>4. main["wal"] = NoFile
  BY <1>2 DEF RestoreInv, Absent
<1>5. CopiesWhole' /\ Readable' /\ ("undo" \notin Failable => Coherent')
  BY <1>2, <1>3, <1>4 DEF RestoreInv, CopiesWhole, Coherent, Readable, Needs, upgrade
<1>6. /\ NoRestore' /\ InPlace' /\ Prepared' /\ Absent' /\ Installed' /\ Pending'
      /\ Untouched'
  BY <1>2, <1>3, <1>4 DEF RestoreInv, NoRestore, InPlace, Prepared, Absent, Installed, Pending,
                    Untouched
<1>10. LeftAside'
  <2>1. CASE pc' = "cleanup_db"
    <3>1. pc = "check" /\ UNCHANGED <<aside, before>>
      BY <1>2, <2>1
    <3>2. aside["db"] # NoFile => aside["db"] = before /\ Needs(before, KeptWal)
      BY <1>1, <3>1 DEF RestoreInv, Apart, Rearranged
    <3>3. Needs(before, KeptWal) => Needs(before, aside["wal"])
      BY <1>4 DEF KeptWal, Needs
    <3> QED BY <2>1, <3>1, <3>2, <3>3 DEF LeftAside, Needs
  <2>2. CASE pc' # "cleanup_db"
    BY <1>2, <2>2 DEF LeftAside
  <2> QED BY <2>1, <2>2
<1>7. Apart'
  <2>1. KeptWal' = KeptWal
    BY <1>2 DEF KeptWal
  <2> QED BY <1>2, <2>1 DEF RestoreInv, Apart, Rearranged, Fits, Needs
<1>8. RestoreResultHolds'
  BY <1>2 DEF RestoreInv, Pending, RestoreResultHolds
<1>9. "move_db" \notin Failable => RollbackCopyKept'
  <2> SUFFICES ASSUME "move_db" \notin Failable PROVE RollbackCopyKept'
    OBVIOUS
  <2>1. before # NoFile => aside["db"] = before
    BY <1>2 DEF RestoreInv, Apart, Rearranged
  <2> QED BY <1>2, <2>1 DEF RestoreInv, RollbackCopyKept
<1> QED BY <1>5, <1>6, <1>7, <1>8, <1>9, <1>10 DEF RestoreInv

(* What was installed is removed.                                          *)
LEMMA UndoStep ==
  ASSUME HostInv, RestoreInv, RemoveInstalled
  PROVE  RestoreInv'
<1> USE DEF HostPhases, OpenPhases, BackupPhases, RestorePhases, InstallPhases, CleanupPhases,
            RollbackPhases
<1>1. "wal" \in Parts /\ "db" \in Parts /\ main \in [Parts -> Contents \cup {NoFile}]
  BY DEF Parts, HostInv, TypeOK
<1>2. "undo" \notin Failable => Tries("undo") = {TRUE}
  BY DEF Tries
<1>3. /\ UNCHANGED <<aside, moved, before, source, result, temporary, backup, upgrade>>
      /\ main'["wal"] = main["wal"]
      /\ main'["db"] = NoFile \/ ("undo" \in Failable /\ main'["db"] = main["db"])
      /\ pc = "undo" /\ pc' = "rollback_shm"
  <2>1. PICK ok \in Tries("undo") : main' = IF ok THEN [main EXCEPT !["db"] = NoFile] ELSE main
    BY DEF RemoveInstalled
  <2>2. CASE "undo" \in Failable
    BY <1>1, <2>1, <2>2 DEF RemoveInstalled, restore
  <2>3. CASE "undo" \notin Failable
    <3>1. ok = TRUE
      BY <1>2, <2>1, <2>3
    <3> QED BY <1>1, <2>1, <3>1 DEF RemoveInstalled, restore
  <2> QED BY <2>2, <2>3
<1>4. CopiesWhole' /\ Readable' /\ ("undo" \notin Failable => Coherent')
  BY <1>3 DEF RestoreInv, CopiesWhole, Coherent, Readable, Needs, upgrade
<1>5. /\ NoRestore' /\ InPlace' /\ Prepared' /\ Absent' /\ Installed' /\ LeftAside' /\ Pending'
      /\ Untouched'
  BY <1>3 DEF RestoreInv, NoRestore, InPlace, Prepared, Absent, Installed, LeftAside, Pending,
                    Untouched
<1>6. Apart'
  <2>1. KeptWal' = KeptWal
    BY <1>3 DEF KeptWal
  <2> QED BY <1>3, <2>1 DEF RestoreInv, Apart, Rearranged, Fits, Needs
<1>7. RestoreResultHolds'
  BY <1>3 DEF RestoreInv, Pending, RestoreResultHolds
<1>8. "move_db" \notin Failable => RollbackCopyKept'
  <2> SUFFICES ASSUME "move_db" \notin Failable PROVE RollbackCopyKept'
    OBVIOUS
  <2>1. before # NoFile => aside["db"] = before
    BY <1>3 DEF RestoreInv, Apart, Rearranged
  <2> QED BY <1>3, <2>1 DEF RestoreInv, RollbackCopyKept
<1> QED BY <1>4, <1>5, <1>6, <1>7, <1>8 DEF RestoreInv

(* A part returns, if it had been moved, or the rollback fails.            *)
LEMMA MovedBack ==
  ASSUME HostInv, NEW part \in Parts, MoveBack(part)
  PROVE  /\ pc = RollbackSteps[part] /\ UNCHANGED <<backup, moved, before, source, upgrade>>
         /\ \A other \in Parts \ {part} : main'[other] = main[other] /\ aside'[other] = aside[other]
         /\ \/ UNCHANGED <<main, aside>> /\ pc' = "idle" /\ result' = "rollback_failed"
            \/ /\ \/ part \in moved /\ main'[part] = aside[part] /\ aside'[part] = NoFile
                  \/ part \notin moved /\ UNCHANGED <<main, aside>>
               /\ \/ part = "db" /\ pc' = "idle" /\ result' = "failed"
                  \/ part = "wal" /\ pc' = "rollback_db" /\ UNCHANGED <<result, temporary>>
                  \/ part = "shm" /\ pc' = "rollback_wal" /\ UNCHANGED <<result, temporary>>
<1>1. main \in [Parts -> Contents \cup {NoFile}] /\ aside \in [Parts -> Contents \cup {NoFile}]
  BY DEF HostInv, TypeOK
<1> QED BY <1>1 DEF MoveBack, Fail, Parts

(* A rollback finds the old database at the rollback path, if there was one.*)
LEMMA SetAside ==
  ASSUME RestoreInv, pc \in RollbackPhases, Failable \cap {"move_db", "undo"} = {}
  PROVE  main["db"] = NoFile /\ aside["db"] = before
<1>1. "db" \in Parts /\ pc \in Rearranged
  BY DEF Parts, Rearranged, RollbackPhases, InstallPhases
<1> QED BY <1>1 DEF RestoreInv, Apart, Absent

(* The shared memory returns first, the WAL second.                        *)
LEMMA ShmReturns ==
  ASSUME HostInv, RestoreInv, MoveBack("shm")
  PROVE  RestoreInv'
<1> USE DEF HostPhases, OpenPhases, BackupPhases, RestorePhases, InstallPhases, CleanupPhases,
            RollbackPhases
<1>1. "shm" \in Parts /\ "db" \in Parts \ {"shm"} /\ "wal" \in Parts \ {"shm"}
  BY DEF Parts
<1>2. /\ pc = "rollback_shm" /\ UNCHANGED <<backup, moved, before, source, upgrade>>
      /\ main'["db"] = main["db"] /\ aside'["db"] = aside["db"]
      /\ main'["wal"] = main["wal"] /\ aside'["wal"] = aside["wal"]
      /\ aside'["shm"] \in {aside["shm"], NoFile}
      /\ \/ pc' = "idle" /\ result' = "rollback_failed"
         \/ /\ pc' = "rollback_wal" /\ UNCHANGED <<result, temporary>>
            /\ "shm" \in moved => aside'["shm"] = NoFile
            /\ "shm" \notin moved => aside'["shm"] = aside["shm"]
  BY <1>1, MovedBack DEF RollbackSteps, Parts
<1>3. /\ "undo" \notin Failable => main["db"] = NoFile
      /\ aside["shm"] # NoFile => "shm" \in moved
  BY <1>1, <1>2 DEF RestoreInv, Apart, Rearranged, Absent
<1>4. CopiesWhole' /\ Readable' /\ ("undo" \notin Failable => Coherent')
  BY <1>2, <1>3 DEF RestoreInv, CopiesWhole, Coherent, Readable, Needs, upgrade
<1>5. /\ NoRestore' /\ InPlace' /\ Prepared' /\ Absent' /\ Installed' /\ LeftAside' /\ Pending'
      /\ Untouched'
  BY <1>2, <1>3 DEF RestoreInv, NoRestore, InPlace, Prepared, Absent, Installed, LeftAside, Pending,
                    Untouched
<1>6. Apart'
  <2>1. KeptWal' = KeptWal
    BY <1>2 DEF KeptWal
  <2> QED BY <1>2, <1>3, <2>1 DEF RestoreInv, Apart, Rearranged, Fits, Needs, Parts
<1>7. Failable \cap {"move_db", "undo"} = {} => RestoreResultHolds'
  BY <1>2, SetAside DEF RestoreInv, Pending, RestoreResultHolds
<1>8. "move_db" \notin Failable => RollbackCopyKept'
  BY <1>2 DEF RestoreInv, RollbackCopyKept
<1> QED BY <1>4, <1>5, <1>6, <1>7, <1>8 DEF RestoreInv

(* The WAL returns to a path where no database is yet.                     *)
LEMMA WalReturns ==
  ASSUME HostInv, RestoreInv, MoveBack("wal")
  PROVE  RestoreInv'
<1> USE DEF HostPhases, OpenPhases, BackupPhases, RestorePhases, InstallPhases, CleanupPhases,
            RollbackPhases
<1>1. "wal" \in Parts /\ "db" \in Parts \ {"wal"} /\ "shm" \in Parts \ {"wal"}
  BY DEF Parts
<1>2. /\ pc = "rollback_wal" /\ UNCHANGED <<backup, moved, before, source, upgrade>>
      /\ main'["db"] = main["db"] /\ aside'["db"] = aside["db"] /\ aside'["shm"] = aside["shm"]
      /\ \/ "wal" \in moved /\ main'["wal"] = aside["wal"] /\ aside'["wal"] = NoFile
         \/ "wal" \notin moved /\ UNCHANGED <<main, aside>>
         \/ UNCHANGED <<main, aside>> /\ pc' = "idle"
      /\ \/ pc' = "idle" /\ result' = "rollback_failed"
         \/ pc' = "rollback_db" /\ UNCHANGED <<result, temporary>>
  BY <1>1, MovedBack DEF RollbackSteps, Parts
<1>3. /\ "undo" \notin Failable => main["db"] = NoFile
      /\ main["db"] # NoFile /\ main["db"].behind => moved = {}
      /\ aside["shm"] = NoFile
      /\ aside["wal"] # NoFile <=> "wal" \in moved
  BY <1>1, <1>2 DEF RestoreInv, Apart, Rearranged, Absent, Untouched
<1>4. CopiesWhole' /\ Readable' /\ ("undo" \notin Failable => Coherent')
  BY <1>2, <1>3 DEF RestoreInv, CopiesWhole, Coherent, Readable, Needs, upgrade
<1>5. /\ NoRestore' /\ InPlace' /\ Prepared' /\ Absent' /\ Installed' /\ LeftAside' /\ Pending'
      /\ Untouched'
  BY <1>2, <1>3 DEF RestoreInv, NoRestore, InPlace, Prepared, Absent, Installed, LeftAside, Pending,
                    Untouched
<1>6. Apart'
  <2>1. KeptWal' = KeptWal
    BY <1>2, <1>3 DEF KeptWal
  <2> QED BY <1>2, <1>3, <2>1 DEF RestoreInv, Apart, Rearranged, Fits, Needs, Parts
<1>7. Failable \cap {"move_db", "undo"} = {} => RestoreResultHolds'
  BY <1>2, SetAside DEF RestoreInv, Pending, RestoreResultHolds
<1>8. "move_db" \notin Failable => RollbackCopyKept'
  <2> SUFFICES ASSUME "move_db" \notin Failable PROVE RollbackCopyKept'
    OBVIOUS
  <2>1. CASE before # NoFile /\ before.behind
    <3>1. KeptWal \in Contents /\ ~KeptWal.behind /\ Needs(before, KeptWal) /\ before \in Contents
      <4>1. Needs(before, KeptWal) /\ KeptWal # NoFile
        BY <1>2, <2>1 DEF RestoreInv, Apart, Rearranged, Needs, Needs
      <4>2. KeptWal \in {main["wal"], aside["wal"]}
        BY DEF KeptWal
      <4> QED BY <1>1, <2>1, <4>1, <4>2 DEF HostInv, TypeOK, RestoreInv, CopiesWhole
    <3>2. KeptWal = Whole(before)
      BY <2>1, <3>1, FitIsWhole
    <3>3. KeptWal \in {main'["wal"], aside'["wal"]}
      BY <1>2, <1>3 DEF KeptWal
    <3> QED BY <1>2, <2>1, <3>2, <3>3 DEF RestoreInv, RollbackCopyKept
  <2>2. CASE ~(before # NoFile /\ before.behind)
    BY <1>2, <2>2 DEF RestoreInv, RollbackCopyKept
  <2> QED BY <2>1, <2>2
<1> QED BY <1>4, <1>5, <1>6, <1>7, <1>8 DEF RestoreInv

(* When the database returns, its WAL is there already.                    *)
LEMMA DatabaseReturns ==
  ASSUME HostInv, RestoreInv, MoveBack("db")
  PROVE  RestoreInv'
<1> USE DEF HostPhases, OpenPhases, BackupPhases, RestorePhases, InstallPhases, CleanupPhases,
            RollbackPhases
<1>1. "db" \in Parts /\ "wal" \in Parts \ {"db"} /\ "shm" \in Parts \ {"db"}
  BY DEF Parts
<1>2. /\ pc = "rollback_db" /\ UNCHANGED <<backup, moved, before, source, upgrade>>
      /\ main'["wal"] = main["wal"] /\ aside'["wal"] = aside["wal"] /\ aside'["shm"] = aside["shm"]
      /\ \/ /\ "db" \in moved /\ main'["db"] = aside["db"] /\ aside'["db"] = NoFile
            /\ result' = "failed"
         \/ "db" \notin moved /\ UNCHANGED <<main, aside>> /\ result' = "failed"
         \/ UNCHANGED <<main, aside>> /\ result' = "rollback_failed"
      /\ pc' = "idle"
  BY <1>1, MovedBack DEF RollbackSteps, Parts
<1>3. /\ "undo" \notin Failable => main["db"] = NoFile
      /\ aside["shm"] = NoFile /\ aside["wal"] = NoFile
      /\ aside["db"] # NoFile => "db" \in moved
      /\ "db" \in moved => before # NoFile /\ aside["db"] = before /\ Needs(before, main["wal"])
      /\ "undo" \notin Failable /\ "db" \in moved => Fits(before, main["wal"])
      /\ "move_db" \notin Failable /\ before # NoFile => "db" \in moved
  BY <1>1, <1>2 DEF RestoreInv, Apart, Rearranged, Absent, KeptWal
<1>4. CopiesWhole'
  BY <1>2 DEF RestoreInv, CopiesWhole, upgrade
<1>5. Readable' /\ ("undo" \notin Failable => Coherent')
  BY <1>2, <1>3 DEF RestoreInv, Readable, Coherent, Fits
<1>6. /\ NoRestore' /\ InPlace' /\ Prepared' /\ Absent' /\ Installed' /\ LeftAside' /\ Pending'
      /\ Apart' /\ Untouched'
  BY <1>2 DEF NoRestore, InPlace, Prepared, Absent, Installed, LeftAside, Pending, Apart,
              Rearranged, Untouched
<1>7. Failable \cap {"move_db", "undo"} = {} => RestoreResultHolds'
  <2> SUFFICES ASSUME "undo" \notin Failable, "move_db" \notin Failable
               PROVE  RestoreResultHolds'
    OBVIOUS
  <2>1. ASSUME result' = "failed" PROVE main'["db"] = before' /\ aside' = Nothing
    <3>1. main'["db"] = before' /\ aside'["db"] = NoFile
      BY <1>2, <1>3, <2>1
    <3>2. aside' \in [Parts -> Contents \cup {NoFile}]
      BY <1>1 DEF HostInv, TypeOK, MoveBack
    <3>3. \A part \in Parts : aside'[part] = NoFile
      BY <1>2, <1>3, <3>1 DEF Parts
    <3> QED BY <3>1, <3>2, <3>3 DEF Nothing
  <2>2. ASSUME result' = "rollback_failed", result' # "failed"
        PROVE  main'["db"] = NoFile /\ aside'["db"] = before'
    BY <1>2, <1>3, <2>2, SetAside
  <2> QED BY <1>2, <2>1, <2>2 DEF RestoreResultHolds
<1>8. "move_db" \notin Failable => RollbackCopyKept'
  BY <1>2, <1>3 DEF RestoreInv, RollbackCopyKept
<1> QED BY <1>4, <1>5, <1>6, <1>7, <1>8 DEF RestoreInv

(* The WAL that is left beside the old database holds what that misses.    *)
LEMMA LeftIsWhole ==
  ASSUME HostInv, RestoreInv, aside["db"] # NoFile, aside["db"] = before,
         Needs(before, aside["wal"]), before.behind
  PROVE  aside["wal"] = Whole(before)
<1>1. /\ aside["db"] \in Contents /\ aside["wal"] \in Contents /\ ~aside["wal"].behind
  BY DEF HostInv, TypeOK, Parts, Needs, RestoreInv, CopiesWhole
<1> QED BY <1>1, FitIsWhole

(* Removing the rollback files touches nothing else, and the database goes *)
(* before its WAL.                                                         *)
LEMMA CleanupStep ==
  ASSUME HostInv, RestoreInv, SyncRemoved \/ \E part \in Parts : RemoveAside(part)
  PROVE  RestoreInv'
<1> USE DEF HostPhases, OpenPhases, BackupPhases, RestorePhases, InstallPhases, CleanupPhases,
            RollbackPhases
<1>1. /\ pc \in CleanupPhases
      /\ UNCHANGED <<main, temporary, backup, moved, before, source, upgrade>>
      /\ \/ pc' = "idle" /\ result' = "cleanup_failed" /\ aside' = aside
         \/ pc = "cleanup_sync" /\ pc' = "idle" /\ result' = "restored" /\ aside' = aside
         \/ /\ pc = "cleanup_db" /\ pc' = "cleanup_wal" /\ result' = result
            /\ aside'["db"] = NoFile /\ aside'["wal"] = aside["wal"]
         \/ /\ pc = "cleanup_wal" /\ pc' = "cleanup_shm" /\ result' = result
            /\ aside'["db"] = aside["db"] /\ aside'["wal"] = NoFile
         \/ /\ pc = "cleanup_shm" /\ pc' = "cleanup_sync" /\ result' = result
            /\ aside'["db"] = aside["db"] /\ aside'["wal"] = aside["wal"]
            /\ aside'["shm"] = NoFile
  <2>1. aside \in [Parts -> Contents \cup {NoFile}]
    BY DEF HostInv, TypeOK
  <2> QED BY <2>1 DEF SyncRemoved, RemoveAside, CleanupSteps, AfterCleanup, Parts
<1>2. /\ main["db"] \in Contents /\ main["db"].v = source /\ ~main["db"].behind
      /\ main["wal"] = NoFile /\ result = "none"
      /\ aside["db"] # NoFile => aside["db"] = before /\ Needs(before, aside["wal"])
      /\ pc # "cleanup_db" => aside["db"] = NoFile
      /\ pc \in {"cleanup_shm", "cleanup_sync"} => aside["wal"] = NoFile
      /\ pc = "cleanup_sync" => aside["shm"] = NoFile
  BY <1>1 DEF RestoreInv, Installed, Absent, Pending, LeftAside
<1>3. CopiesWhole' /\ Readable' /\ ("undo" \notin Failable => Coherent')
  BY <1>1 DEF RestoreInv, CopiesWhole, Coherent, Readable, Needs, upgrade
<1>4. /\ NoRestore' /\ InPlace' /\ Prepared' /\ Absent' /\ Installed' /\ Pending' /\ Apart'
      /\ Untouched'
  BY <1>1, <1>2 DEF RestoreInv, NoRestore, InPlace, Prepared, Absent, Installed, Pending,
                    Apart, Rearranged, Untouched
<1>5. LeftAside'
  BY <1>1, <1>2 DEF LeftAside
<1>6. RollbackCopyKept'
  BY <1>1, <1>2 DEF RollbackCopyKept
<1>7. RestoreResultHolds'
  <2>1. CASE result' = "none"
    BY <2>1 DEF RestoreResultHolds
  <2>2. CASE result' = "restored"
    <3>1. aside \in [Parts -> Contents \cup {NoFile}] /\ \A part \in Parts : aside[part] = NoFile
      BY <1>1, <1>2, <2>2 DEF HostInv, TypeOK, Parts
    <3>2. aside = Nothing
      BY <3>1 DEF Nothing
    <3> QED BY <1>1, <1>2, <2>2, <3>2 DEF RestoreResultHolds, Replaced
  <2>3. CASE result' = "cleanup_failed"
    <3>1. aside["db"] # NoFile => (before.behind => aside["wal"] = Whole(before))
      BY <1>2, LeftIsWhole
    <3> QED BY <1>1, <1>2, <2>3, <3>1 DEF RestoreResultHolds, Replaced
  <2> QED BY <1>1, <1>2, <2>1, <2>2, <2>3
<1> QED BY <1>3, <1>4, <1>5, <1>6, <1>7 DEF RestoreInv

(* A crash leaves all files but the temporary one as they are.             *)
LEMMA CrashStep ==
  ASSUME HostInv, RestoreInv, Crash
  PROVE  RestoreInv'
<1> USE DEF HostPhases, OpenPhases, BackupPhases, RestorePhases, InstallPhases, CleanupPhases,
            RollbackPhases
<1>1. /\ pc \in HostPhases \cup RestorePhases /\ pc' = "idle"
      /\ UNCHANGED <<main, aside, backup, moved, before, source, upgrade>>
  BY DEF Crash, HostInv, TypeOK
<1>2. CopiesWhole' /\ Readable' /\ ("undo" \notin Failable => Coherent')
  BY <1>1 DEF RestoreInv, CopiesWhole, Coherent, Readable, Needs, upgrade
<1>3. /\ NoRestore' /\ InPlace' /\ Prepared' /\ Absent' /\ Installed' /\ LeftAside' /\ Pending'
      /\ Apart' /\ Untouched'
  BY <1>1 DEF NoRestore, InPlace, Prepared, Absent, Installed, LeftAside, Pending, Apart,
              Rearranged, Untouched
<1>4. CASE pc \in HostPhases
  <2>1. before = NoFile /\ result' = "none"
    BY <1>4 DEF RestoreInv, NoRestore, Crash
  <2> QED BY <1>1, <1>2, <2>1, NothingRestored
<1>5. CASE pc \in CleanupPhases
  <2>1. result' = "crashed_late" /\ Replaced
    BY <1>5 DEF Crash, RestoreInv, Installed, Absent, Replaced
  <2>2. aside["db"] # NoFile =>
          aside["db"] = before /\ (before.behind => aside["wal"] = Whole(before))
    BY <1>5, LeftIsWhole DEF RestoreInv, LeftAside
  <2>3. RestoreResultHolds' /\ RollbackCopyKept'
    BY <1>1, <2>1, <2>2 DEF RestoreResultHolds, Replaced, RollbackCopyKept
  <2> QED BY <1>2, <1>3, <2>3 DEF RestoreInv
<1>6. CASE pc \in RestorePhases \ CleanupPhases
  <2>1. result' = "crashed"
    BY <1>6 DEF Crash
  <2>2. RestoreResultHolds' /\ ("move_db" \notin Failable => RollbackCopyKept')
    BY <1>1, <1>6, <2>1 DEF RestoreInv, RestoreResultHolds, RollbackCopyKept
  <2> QED BY <1>2, <1>3, <2>2 DEF RestoreInv
<1> QED BY <1>1, <1>4, <1>5, <1>6

(* Every step keeps track of the files.                                    *)
LEMMA RestoreStep ==
  ASSUME HostInv, HostInv', RestoreInv, [Next]_vars
  PROVE  RestoreInv'
<1>1. CASE HostActions
  BY <1>1, HostRestoreStep
<1>2. CASE Others \/ ReplaceProgram \/ UNCHANGED vars
  BY <1>2, OthersRestoreStep
<1>3. ASSUME NEW part \in Parts, MoveAside(part) PROVE RestoreInv'
  BY <1>3, MoveDatabase, MoveWal, MoveShm DEF Parts
<1>4. ASSUME NEW part \in Parts, MoveBack(part) PROVE RestoreInv'
  BY <1>4, DatabaseReturns, WalReturns, ShmReturns DEF Parts
<1>5. CASE SyncRemoved \/ \E part \in Parts : RemoveAside(part)
  BY <1>5, CleanupStep
<1>6. CASE \/ StartRestore \/ CopySource \/ ValidateCopy
           \/ InstallCopy \/ CheckInstalled \/ RemoveInstalled \/ Crash
  BY <1>6, StartStep, PrepareStep, InstallStep, UndoStep, CrashStep
<1> QED BY <1>1, <1>2, <1>3, <1>4, <1>5, <1>6 DEF Next, Restore, HostActions

(* There is nothing at first.                                              *)
LEMMA FilesInit ==
  ASSUME Init
  PROVE  HostInv /\ RestoreInv
<1> USE DEF HostPhases, OpenPhases, BackupPhases, RestorePhases, InstallPhases, CleanupPhases,
            RollbackPhases
<1>1. /\ main = Nothing /\ aside = Nothing /\ temporary = NoFile /\ backup = NoFile
      /\ preUpgrade = NoFile /\ program \in Schemas
      /\ moved = {} /\ before = NoFile /\ source = 0 /\ result = "none" /\ pc = "idle"
  BY DEF Init
<1>2. \A part \in Parts : Nothing[part] = NoFile
  BY DEF Nothing
<1>3. Nothing \in [Parts -> Contents \cup {NoFile}] /\ 0 \in Versions
  BY FilesAssumption DEF Nothing, Versions
<1>4. HostInv
  BY <1>1, <1>3 DEF HostInv, TypeOK, Hosted, SchemaFitsProgram, Results
<1>5. /\ NoRestore /\ InPlace /\ Prepared /\ Absent /\ Installed /\ LeftAside /\ Pending /\ Apart
      /\ Untouched
  BY <1>1 DEF NoRestore, InPlace, Prepared, Absent, Installed, LeftAside, Pending, Apart,
              Rearranged, Untouched
<1>6. CopiesWhole /\ Coherent /\ Readable
  BY <1>1, <1>2, FilesAssumption DEF CopiesWhole, Coherent, Readable, Parts
<1>7. RestoreResultHolds /\ RollbackCopyKept
  <2>1. RestoreResultHolds
    BY <1>1, Zenon DEF RestoreResultHolds
  <2>2. RollbackCopyKept
    BY <1>1 DEF RollbackCopyKept
  <2> QED BY <2>1, <2>2
<1> QED BY <1>4, <1>5, <1>6, <1>7 DEF RestoreInv

-----------------------------------------------------------------------------

(* Every path holds what may be there, whichever operations fail.          *)
THEOREM FilesTyped ==
  Spec => []TypeOK
<1>1. Init => HostInv
  BY FilesInit
<1>2. HostInv => TypeOK
  BY DEF HostInv
<1> QED BY <1>1, <1>2, HostStep, PTL DEF Spec

(* The host works only on a database of the schema of its build, whichever *)
(* builds follow each other and wherever an upgrade or a restore fails.    *)
THEOREM SchemaGate ==
  Spec => []SchemaFitsProgram
<1>1. Init => HostInv
  BY FilesInit
<1>2. HostInv => SchemaFitsProgram
  BY DEF HostInv
<1> QED BY <1>1, <1>2, HostStep, PTL DEF Spec

(* A backup appears complete, and never in the place of another file.      *)
THEOREM BackupsStay ==
  Spec => BackupNeverOverwrites
<1>1. Init => HostInv
  BY FilesInit
<1>2. HostInv /\ HostInv' /\ [Next]_vars =>
        [ backup' \in Contents =>
            \/ backup' = backup
            \/ backup = NoFile /\ backup' = preUpgrade
            \/ backup = NoFile /\ main["db"] # NoFile /\ backup' = Whole(main["db"]) ]_vars
  <2> SUFFICES ASSUME HostInv, [Next]_vars, backup' # backup, backup' \in Contents
               PROVE  \/ backup = NoFile /\ backup' = preUpgrade
                      \/ /\ backup = NoFile /\ main["db"] # NoFile
                         /\ backup' = Whole(main["db"])
    OBVIOUS
  <2>1. CASE LinkBackup
    <3>1. /\ pc = "backup_link" /\ backup = NoFile /\ backup' = temporary
      BY <2>1 DEF LinkBackup
    <3>2. temporary = Whole(main["db"]) /\ main["db"] \in Contents
      BY <3>1 DEF HostInv, Hosted, HostPhases, BackupPhases, Parts
    <3> QED BY <3>1, <3>2, FilesAssumption
  <2>2. CASE Others
    BY <2>2, FilesAssumption DEF Others
  <2>3. CASE ~LinkBackup /\ ~Others
    BY <2>3 DEF Next, Restore, OpenStore, CheckSchema, CreatePreUpgrade, CopyPreUpgrade,
                Migrate,
                FinishOpen, ReplaceProgram, Work, CloseStore, StartBackup, CopyBackup,
                SyncBackup,
                StartRestore, CopySource, ValidateCopy, MoveAside, InstallCopy,
                CheckInstalled,
                RemoveInstalled, MoveBack, RemoveAside, SyncRemoved, Crash, vars
  <2> QED BY <2>1, <2>2, <2>3
<1> QED BY <1>1, <1>2, HostStep, PTL DEF Spec, BackupNeverOverwrites

(* Wherever a restore fails or dies, if only a rollback can remove what is *)
(* installed, a database on disk has its own WAL or needs none: no start   *)
(* applies another database's transactions.                                *)
THEOREM WalFits ==
  ASSUME "undo" \notin Failable
  PROVE  Spec => []Coherent
<1>1. Init => HostInv /\ RestoreInv
  BY FilesInit
<1>2. HostInv /\ RestoreInv /\ [Next]_vars => HostInv' /\ RestoreInv'
  BY HostStep, RestoreStep
<1>3. HostInv /\ RestoreInv => Coherent
  BY DEF RestoreInv
<1> QED BY <1>1, <1>2, <1>3, PTL DEF Spec

(* If neither of the two fails, a restore is as its result says, whatever  *)
(* else fails: success means that only the backup is there; an error means *)
(* that the old database is back, or that there is none and the old one is *)
(* at the rollback path, or, if only the removal of the rollback files     *)
(* failed, that the database has been replaced nevertheless (store.rs:382).*)
THEOREM RestoreResults ==
  ASSUME Failable \cap {"move_db", "undo"} = {}
  PROVE  Spec => []RestoreResultHolds
<1>1. Init => HostInv /\ RestoreInv
  BY FilesInit
<1>2. HostInv /\ RestoreInv /\ [Next]_vars => HostInv' /\ RestoreInv'
  BY HostStep, RestoreStep
<1>3. HostInv /\ RestoreInv => RestoreResultHolds
  BY DEF RestoreInv
<1> QED BY <1>1, <1>2, <1>3, PTL DEF Spec

(* If the first rename does not fail, what a restore found, with its WAL,  *)
(* is on disk until it has succeeded, also when a rollback can remove      *)
(* nothing (crates/vea-store/README.md on restore).                        *)
THEOREM CopyKept ==
  ASSUME "move_db" \notin Failable
  PROVE  Spec => []RollbackCopyKept
<1>1. Init => HostInv /\ RestoreInv
  BY FilesInit
<1>2. HostInv /\ RestoreInv /\ [Next]_vars => HostInv' /\ RestoreInv'
  BY HostStep, RestoreStep
<1>3. HostInv /\ RestoreInv => RollbackCopyKept
  BY DEF RestoreInv
<1> QED BY <1>1, <1>2, <1>3, PTL DEF Spec

(* Only an upgrade changes the schema of a database.                       *)
LEMMA SchemaChanges ==
  ASSUME HostInv, RestoreInv, "undo" \notin Failable, [Next]_vars,
         main["db"] # NoFile, main'["db"] # NoFile,
         main["db"].schema # 0, main'["db"].schema # main["db"].schema
  PROVE  preUpgrade' = Whole(main["db"])
<1>1. main \in [Parts -> Contents \cup {NoFile}] /\ "db" \in Parts /\ main["db"] \in Contents
  BY DEF HostInv, TypeOK, Parts
<1>2. main' # Checkpointed(main["db"])
  <2>1. PICK db \in Contents : db = main["db"]
    BY <1>1
  <2>2. Checkpointed(db)["db"].schema = db.schema
    BY CheckpointedTyped, ContentsTypes
  <2> QED BY <2>1, <2>2
<1>3. CASE Migrate
  BY <1>3 DEF Migrate, HostInv, Hosted, upgrade
<1>4. CASE Work
  <2>1. main["db"].schema = program
    BY <1>4 DEF Work, HostInv, SchemaFitsProgram
  <2>2. main'["db"].schema = program
    BY <1>1, <1>4 DEF Work, File
  <2> QED BY <2>1, <2>2
<1>5. CASE OpenStore
  <2>1. main'["db"] = main["db"]
    BY <1>1, <1>5 DEF OpenStore
  <2> QED BY <2>1
<1>6. ASSUME NEW part \in Parts, MoveAside(part) \/ MoveBack(part)
      PROVE  main'["db"] = main["db"] \/ main["db"] = NoFile \/ main'["db"] = NoFile
  <2>1. CASE MoveAside(part)
    BY <1>1, <2>1 DEF MoveAside
  <2>2. CASE MoveBack(part)
    <3>1. pc = RollbackSteps[part]
      BY <2>2 DEF MoveBack
    <3>2. CASE part = "db"
      BY <3>1, <3>2 DEF RollbackSteps, RollbackPhases, RestoreInv, Absent
    <3>3. CASE part # "db"
      BY <1>1, <2>2, <3>3 DEF MoveBack
    <3> QED BY <3>2, <3>3
  <2> QED BY <1>6, <2>1, <2>2
<1>7. CASE InstallCopy \/ RemoveInstalled
  <2>1. CASE InstallCopy
    BY <2>1 DEF InstallCopy, RestoreInv, Absent
  <2>2. CASE RemoveInstalled
    BY <1>1, <2>2 DEF RemoveInstalled
  <2> QED BY <1>7, <2>1, <2>2
<1>8. CASE \/ CheckSchema \/ CreatePreUpgrade \/ CopyPreUpgrade \/ FinishOpen
           \/ ReplaceProgram \/ CloseStore \/ StartBackup \/ CopyBackup \/ LinkBackup \/ SyncBackup
           \/ Others \/ StartRestore \/ CopySource \/ ValidateCopy \/ CheckInstalled
           \/ (\E part \in Parts : RemoveAside(part)) \/ SyncRemoved \/ Crash
           \/ UNCHANGED vars
  <2>1. main' = main
    BY <1>2, <1>8 DEF CheckSchema, CreatePreUpgrade, CopyPreUpgrade, FinishOpen, OpenFails,
                ReplaceProgram, CloseStore, StartBackup, CopyBackup, LinkBackup, SyncBackup,
                Others, StartRestore, CopySource, ValidateCopy, CheckInstalled, RemoveAside,
                SyncRemoved, Crash, vars
  <2> QED BY <2>1
<1> QED BY <1>3, <1>4, <1>5, <1>6, <1>7, <1>8 DEF Next, Restore

(* An upgrade that changes the schema of a database leaves a complete copy *)
(* of it, in its old schema (apply_migrations).  What is installed must go *)
(* before a rollback: the rename would replace it by another schema.       *)
THEOREM UpgradesBackedUp ==
  ASSUME "undo" \notin Failable
  PROVE  Spec => UpgradeIsBackedUp
<1>1. Init => HostInv /\ RestoreInv
  BY FilesInit
<1>2. HostInv /\ RestoreInv /\ [Next]_vars => HostInv' /\ RestoreInv'
  BY HostStep, RestoreStep
<1>3. HostInv /\ RestoreInv /\ [Next]_vars =>
        [ (/\ NoFile \notin {main["db"], main'["db"]}
           /\ main["db"].schema # 0
           /\ main'["db"].schema # main["db"].schema)
          => preUpgrade' = Whole(main["db"]) ]_vars
  BY SchemaChanges
<1> QED BY <1>1, <1>2, <1>3, PTL DEF Spec, UpgradeIsBackedUp
=============================================================================
