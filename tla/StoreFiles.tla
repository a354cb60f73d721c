----------------------------- MODULE StoreFiles -----------------------------
(***************************************************************************)
(* The files of a store (crates/vea-store): the database with its WAL and  *)
(* shared-memory file, the backup that `Store::backup` publishes, and the  *)
(* temporary and rollback files of `Store::restore`.  One step per file    *)
(* operation; each may fail, and the process may die between any two.      *)
(*                                                                         *)
(* A file holds a version of the data, a number that grows with the work   *)
(* of the host, in one of the schemas that the builds of the program know; *)
(* a build can be replaced by a newer or an older one between two runs.  A *)
(* database file is behind when its last transactions are only in its WAL. *)
(* The process and file locks exclude all other operations on the store,   *)
(* so that there is one at a time.                                         *)
(***************************************************************************)
EXTENDS Integers

CONSTANTS
  MaxVersion,    \* bound on the versions the host produces
  MaxSchema,     \* bound on the schemas, one for each migration
  Failable,      \* the steps whose file operation may fail
  NoFile,        \* content of a path where there is no file
  Foreign        \* content of a file that is not a Vea database

Parts == {"db", "wal", "shm"}
File(v, schema, behind) == [v |-> v, schema |-> schema, behind |-> behind]

(* A copy that SQLite makes has what is in the WAL as well.                *)
Whole(db) == [db EXCEPT !.behind = FALSE]

Versions == 0..MaxVersion
Schemas == 1..MaxSchema     \* an empty database has schema 0
Contents == [v : Versions, schema : Schemas \cup {0}, behind : BOOLEAN]

MoveSteps     == [db |-> "move_db", wal |-> "move_wal", shm |-> "move_shm"]
RollbackSteps == [db |-> "rollback_db", wal |-> "rollback_wal", shm |-> "rollback_shm"]
CleanupSteps  == [db |-> "cleanup_db", wal |-> "cleanup_wal", shm |-> "cleanup_shm"]

OpenPhases    == {"open_check", "upgrade_create", "upgrade_copy", "migrate", "open_repair"}
BackupPhases  == {"backup_copy", "backup_link", "backup_sync"}
InstallPhases == {"move_db", "move_wal", "move_shm", "install", "check", "undo",
                  "rollback_shm", "rollback_wal", "rollback_db"}
CleanupPhases == {"cleanup_db", "cleanup_wal", "cleanup_shm", "cleanup_sync"}
RestorePhases == {"restore_copy", "validate"} \cup InstallPhases \cup CleanupPhases

(* How a restore ends.  Only "restored" is a success; three others are the  *)
(* errors that it returns, before, in and after the rollback or the        *)
(* replacement; it returns nothing when the process dies, and is late to   *)
(* die when all it had left to do was to remove the rollback copy.         *)
Results == {"none", "restored", "failed", "rollback_failed", "cleanup_failed", "crashed",
            "crashed_late"}

ASSUME FilesAssumption ==
  /\ MaxVersion \in Nat
  /\ MaxSchema \in Nat \ {0}
  /\ NoFile # Foreign
  /\ NoFile \notin Contents /\ Foreign \notin Contents

VARIABLES
  main,       \* the files at the database path
  aside,      \* the files at the rollback path of the last restore
  temporary,  \* the temporary copy a backup or a restore makes
  backup,     \* the file at the backup path
  preUpgrade, \* the copy that the last upgrade made of the database
  program,    \* the schema of the build in use
  moved,      \* the parts this restore has moved aside
  before,     \* the database file this restore found
  source,     \* the version this restore installs
  result,     \* how the last restore ended
  pc          \* the step in progress, "idle" or "open"

upgrade == <<preUpgrade, program>>
vars == <<main, aside, temporary, backup, upgrade, moved, before, source, result, pc>>
restore == <<aside, moved, before, source, result>>

Tries(step) == IF step \in Failable THEN BOOLEAN ELSE {TRUE}

Nothing == [part \in Parts |-> NoFile]

Init ==
  /\ main = Nothing /\ aside = Nothing /\ temporary = NoFile /\ backup = NoFile
  /\ preUpgrade = NoFile /\ program \in Schemas
  /\ moved = {} /\ before = NoFile /\ source = 0 /\ result = "none" /\ pc = "idle"

-----------------------------------------------------------------------------
(* The host: it opens the database or creates an empty one, works, and     *)
(* closes it or dies.  SQLite removes a WAL that has no database, reads    *)
(* what a WAL adds to its database, and checkpoints on the last close.     *)

OpenStore ==
  /\ pc = "idle"
  /\ LET db == IF main["db"] = NoFile THEN File(0, 0, FALSE) ELSE main["db"]
     IN  main' = [part \in Parts |-> IF part = "db" THEN db ELSE File(db.v, db.schema, FALSE)]
  /\ aside' = Nothing /\ moved' = {} /\ before' = NoFile /\ source' = 0 /\ result' = "none"
  /\ pc' = "open_check"
  /\ UNCHANGED <<temporary, backup, upgrade>>

Checkpointed(db) == [part \in Parts |-> IF part = "db" THEN Whole(db) ELSE NoFile]

(* The error is returned and the connection closed.                        *)
OpenFails == pc' = "idle" /\ main' = Checkpointed(main["db"])

(* Variant with a defect: a newer schema is taken for the current one.     *)
CheckSchemaNotNewer ==
  /\ pc = "open_check"
  /\ \E ok \in Tries("open_check") :
       IF ~ok THEN OpenFails
       ELSE /\ pc' = IF main["db"].schema >= program THEN "open_repair"
                     ELSE IF main["db"].schema > 0 THEN "upgrade_create" ELSE "migrate"
            /\ UNCHANGED main
  /\ UNCHANGED <<restore, temporary, backup, upgrade>>

(* A newer schema is refused, an older one upgraded after a backup, an     *)
(* empty database filled.                                                  *)
CheckSchema ==
  /\ pc = "open_check"
  /\ \E ok \in Tries("open_check") :
       IF ~ok \/ main["db"].schema > program THEN OpenFails
       ELSE /\ pc' = IF main["db"].schema = program THEN "open_repair"
                     ELSE IF main["db"].schema > 0 THEN "upgrade_create" ELSE "migrate"
            /\ UNCHANGED main
  /\ UNCHANGED <<restore, temporary, backup, upgrade>>

(* backup_database: a file of a new name, empty at first.  It stays where  *)
(* it is, complete or not, if the upgrade fails.                           *)
CreatePreUpgrade ==
  /\ pc = "upgrade_create"
  /\ \E ok \in Tries("upgrade_create") :
       IF ok THEN preUpgrade' = Foreign /\ pc' = "upgrade_copy" /\ UNCHANGED main
             ELSE OpenFails /\ UNCHANGED preUpgrade
  /\ UNCHANGED <<restore, temporary, backup, program>>

(* Variant with a defect: the upgrade goes on when the copy failed.        *)
CopyPreUpgradeIfPossible ==
  /\ pc = "upgrade_copy"
  /\ \E ok \in Tries("upgrade_copy") :
       IF ok THEN preUpgrade' = Whole(main["db"]) ELSE UNCHANGED preUpgrade
  /\ pc' = "migrate"
  /\ UNCHANGED <<main, restore, temporary, backup, program>>

(* The copy, its check and its sync.                                       *)
CopyPreUpgrade ==
  /\ pc = "upgrade_copy"
  /\ \E ok \in Tries("upgrade_copy"), copied \in BOOLEAN :
       /\ ok => copied
       /\ preUpgrade' = IF copied THEN Whole(main["db"]) ELSE preUpgrade
       /\ IF ok THEN pc' = "migrate" /\ UNCHANGED main ELSE OpenFails
  /\ UNCHANGED <<restore, temporary, backup, program>>

(* All pending migrations and their checks are one transaction.            *)
Migrate ==
  /\ pc = "migrate"
  /\ \E ok \in Tries("migrate"), behind \in BOOLEAN :
       IF ok THEN /\ main' = [part \in Parts |->
                                File(main["db"].v, program, part = "db" /\ behind)]
                  /\ pc' = "open_repair"
             ELSE OpenFails
  /\ UNCHANGED <<restore, temporary, backup, upgrade>>

(* The check after the commit, verify_and_repair and the recovery of       *)
(* started side effects.                                                   *)
FinishOpen ==
  /\ pc = "open_repair"
  /\ \E ok \in Tries("open_repair") : IF ok THEN pc' = "open" /\ UNCHANGED main ELSE OpenFails
  /\ UNCHANGED <<restore, temporary, backup, upgrade>>

(* Another build of the program is installed.                              *)
ReplaceProgram ==
  /\ pc = "idle"
  /\ program' \in Schemas \ {program}
  /\ UNCHANGED <<main, restore, temporary, backup, preUpgrade, pc>>

Work ==
  /\ pc = "open"
  /\ main["db"].v < MaxVersion
  /\ \E behind \in BOOLEAN :
       main' = [part \in Parts |->
                 File(main["db"].v + 1, program, part = "db" /\ behind)]
  /\ UNCHANGED <<restore, temporary, backup, upgrade, pc>>

CloseStore ==
  /\ pc = "open"
  /\ main' = Checkpointed(main["db"])
  /\ pc' = "idle"
  /\ UNCHANGED <<restore, temporary, backup, upgrade>>

(* Store::backup copies into a temporary file next to the destination and  *)
(* publishes it with a hard link, which fails if the destination exists.   *)
StartBackup ==
  /\ pc = "open"
  /\ backup = NoFile
  /\ pc' = "backup_copy"
  /\ UNCHANGED <<main, restore, temporary, backup, upgrade>>

CopyBackup ==
  /\ pc = "backup_copy"
  /\ \E ok \in Tries("backup_copy") :
       IF ok THEN temporary' = Whole(main["db"]) /\ pc' = "backup_link"
             ELSE UNCHANGED temporary /\ pc' = "open"
  /\ UNCHANGED <<main, restore, backup, upgrade>>

(* Variant with a defect: the copy is renamed over the destination.        *)
LinkBackupByRename ==
  /\ pc = "backup_link"
  /\ backup' = temporary /\ pc' = "backup_sync"
  /\ UNCHANGED <<main, restore, temporary, upgrade>>

LinkBackup ==
  /\ pc = "backup_link"
  /\ \E ok \in Tries("backup_link") :
       IF ok /\ backup = NoFile
       THEN backup' = temporary /\ pc' = "backup_sync" /\ UNCHANGED temporary
       ELSE temporary' = NoFile /\ pc' = "open" /\ UNCHANGED backup
  /\ UNCHANGED <<main, restore, upgrade>>

(* Whether or not the directory can be synced, the copy is removed.        *)
SyncBackup ==
  /\ pc = "backup_sync"
  /\ temporary' = NoFile
  /\ pc' = "open"
  /\ UNCHANGED <<main, restore, backup, upgrade>>

(* Others may put a file at the backup path, such as the copy an upgrade   *)
(* has made, or take one away, any time.                                   *)
Others ==
  /\ IF backup = NoFile THEN backup' \in {Foreign, preUpgrade} ELSE backup' = NoFile
  /\ UNCHANGED <<main, restore, temporary, pc, upgrade>>

-----------------------------------------------------------------------------
(* Store::restore.                                                         *)

StartRestore ==
  /\ pc = "idle"
  /\ backup # NoFile
  /\ aside' = Nothing /\ moved' = {} /\ before' = main["db"] /\ source' = 0
  /\ result' = "none"
  /\ pc' = "restore_copy"
  /\ UNCHANGED <<main, temporary, backup, upgrade>>

(* validate_migration_history: a database, of a schema this build knows.   *)
ValidHistory(file) == file \notin {NoFile, Foreign} /\ file.schema \in 1..program

Fail(how) == result' = how /\ pc' = "idle" /\ temporary' = NoFile

(* Variant with a defect: any file is taken for a database.                *)
CopySourceUnchecked ==
  /\ pc = "restore_copy"
  /\ \E ok \in Tries("restore_copy") :
       IF ok /\ backup # NoFile
       THEN /\ temporary' = backup /\ source' = 0
            /\ pc' = "validate" /\ UNCHANGED result
       ELSE Fail("failed") /\ UNCHANGED source
  /\ UNCHANGED <<main, aside, backup, moved, before, upgrade>>

(* The source is checked and copied.                                       *)
CopySource ==
  /\ pc = "restore_copy"
  /\ \E ok \in Tries("restore_copy") :
       IF ok /\ ValidHistory(backup)
       THEN /\ temporary' = backup /\ source' = backup.v
            /\ pc' = "validate" /\ UNCHANGED result
       ELSE Fail("failed") /\ UNCHANGED source
  /\ UNCHANGED <<main, aside, backup, moved, before, upgrade>>

(* The copy is opened as a store, which upgrades and repairs it, verified  *)
(* and synced.                                                             *)
ValidateCopy ==
  /\ pc = "validate"
  /\ \E ok \in Tries("validate") :
       IF ok THEN /\ temporary' = [temporary EXCEPT !.schema = program]
                  /\ pc' = "move_db" /\ UNCHANGED result
             ELSE Fail("failed")
  /\ UNCHANGED <<main, aside, backup, moved, before, source, upgrade>>

AfterMove == [db |-> "move_wal", wal |-> "move_shm", shm |-> "install"]

(* The files of the database are renamed to the rollback path one by one.  *)
MoveAside(part) ==
  /\ pc = MoveSteps[part]
  /\ IF main[part] = NoFile
     THEN pc' = AfterMove[part] /\ UNCHANGED <<main, aside, moved>>
     ELSE \E ok \in Tries(MoveSteps[part]) :
            IF ok THEN /\ aside' = [aside EXCEPT ![part] = main[part]]
                       /\ main' = [main EXCEPT ![part] = NoFile]
                       /\ moved' = moved \cup {part}
                       /\ pc' = AfterMove[part]
                  ELSE pc' = "undo" /\ UNCHANGED <<main, aside, moved>>
  /\ UNCHANGED <<temporary, backup, before, source, result, upgrade>>

(* Variant with a defect: the rollback copy is removed too early.          *)
InstallCopyDropsRollback ==
  /\ pc = "install"
  /\ \E ok \in Tries("install") :
       IF ok THEN /\ main' = [main EXCEPT !["db"] = temporary] /\ aside' = Nothing
                  /\ temporary' = NoFile /\ pc' = "check"
             ELSE pc' = "undo" /\ UNCHANGED <<main, aside, temporary>>
  /\ UNCHANGED <<moved, before, source, result, backup, upgrade>>

InstallCopy ==
  /\ pc = "install"
  /\ \E ok \in Tries("install") :
       IF ok THEN /\ main' = [main EXCEPT !["db"] = temporary]
                  /\ temporary' = NoFile /\ pc' = "check"
             ELSE pc' = "undo" /\ UNCHANGED <<main, temporary>>
  /\ UNCHANGED <<restore, backup, upgrade>>

(* Permissions, a sync of the directory, and a check of what is installed. *)
CheckInstalled ==
  /\ pc = "check"
  /\ \E ok \in Tries("check") : pc' = IF ok THEN "cleanup_db" ELSE "undo"
  /\ UNCHANGED <<main, restore, temporary, backup, upgrade>>

(* What is at the database path is removed, whatever it is.                *)
RemoveInstalled ==
  /\ pc = "undo"
  /\ \E ok \in Tries("undo") : main' = IF ok THEN [main EXCEPT !["db"] = NoFile] ELSE main
  /\ pc' = "rollback_shm"
  /\ UNCHANGED <<restore, temporary, backup, upgrade>>

(* Variant with a defect: the database returns first.                      *)
MoveBackDatabaseFirst(part) ==
  LET order == [db |-> "rollback_shm", wal |-> "rollback_db", shm |-> "rollback_wal"]
  IN  /\ pc = order[part]
      /\ IF part \in moved
         THEN /\ main' = [main EXCEPT ![part] = aside[part]]
              /\ aside' = [aside EXCEPT ![part] = NoFile]
         ELSE UNCHANGED <<main, aside>>
      /\ IF part = "wal" THEN Fail("failed")
         ELSE /\ pc' = IF part = "db" THEN "rollback_wal" ELSE "rollback_db"
              /\ UNCHANGED <<result, temporary>>
      /\ UNCHANGED <<backup, moved, before, source, upgrade>>

(* rollback_restore: the parts return in the opposite order, the database  *)
(* last.                                                                   *)
MoveBack(part) ==
  /\ pc = RollbackSteps[part]
  /\ \E ok \in Tries(RollbackSteps[part]) :
       LET moves == part \in moved
       IN  /\ IF moves /\ ok
              THEN /\ main' = [main EXCEPT ![part] = aside[part]]
                   /\ aside' = [aside EXCEPT ![part] = NoFile]
              ELSE UNCHANGED <<main, aside>>
           /\ IF moves /\ ~ok THEN Fail("rollback_failed")
              ELSE IF part = "db" THEN Fail("failed")
              ELSE /\ pc' = IF part = "shm" THEN "rollback_wal" ELSE "rollback_db"
                   /\ UNCHANGED <<result, temporary>>
  /\ UNCHANGED <<backup, moved, before, source, upgrade>>

AfterCleanup == [db |-> "cleanup_wal", wal |-> "cleanup_shm", shm |-> "cleanup_sync"]

(* Variant with a defect: a file that cannot be removed is passed over.    *)
RemoveAsideIfPossible(part) ==
  /\ pc = CleanupSteps[part]
  /\ \E ok \in Tries(CleanupSteps[part]) :
       aside' = IF ok THEN [aside EXCEPT ![part] = NoFile] ELSE aside
  /\ pc' = AfterCleanup[part]
  /\ UNCHANGED <<main, temporary, backup, moved, before, source, result, upgrade>>

(* The replacement succeeded: the rollback copy is removed, the database   *)
(* first.  A removal that fails is an error of the restore all the same.   *)
RemoveAside(part) ==
  /\ pc = CleanupSteps[part]
  /\ \E ok \in Tries(CleanupSteps[part]) :
       IF ok \/ aside[part] = NoFile
       THEN /\ aside' = [aside EXCEPT ![part] = NoFile]
            /\ pc' = AfterCleanup[part] /\ UNCHANGED result
       ELSE result' = "cleanup_failed" /\ pc' = "idle" /\ UNCHANGED aside
  /\ UNCHANGED <<main, temporary, backup, moved, before, source, upgrade>>

(* The last sync of the directory, and the end of the restore.             *)
SyncRemoved ==
  /\ pc = "cleanup_sync"
  /\ \E ok \in Tries("cleanup_sync") : result' = IF ok THEN "restored" ELSE "cleanup_failed"
  /\ pc' = "idle"
  /\ UNCHANGED <<main, aside, temporary, backup, moved, before, source, upgrade>>

(* The process dies.  Temporary files have fresh names and are not looked  *)
(* at again.                                                               *)
Crash ==
  /\ pc # "idle"
  /\ pc' = "idle"
  /\ temporary' = NoFile
  /\ result' = IF pc \in CleanupPhases THEN "crashed_late"
               ELSE IF pc \in RestorePhases THEN "crashed" ELSE result
  /\ UNCHANGED <<main, aside, backup, moved, before, source, upgrade>>

Restore ==
  \/ StartRestore \/ CopySource \/ ValidateCopy
  \/ \E part \in Parts : MoveAside(part)
  \/ InstallCopy \/ CheckInstalled \/ RemoveInstalled
  \/ \E part \in Parts : MoveBack(part)
  \/ \E part \in Parts : RemoveAside(part)
  \/ SyncRemoved

Next ==
  \/ OpenStore \/ CheckSchema \/ CreatePreUpgrade \/ CopyPreUpgrade \/ Migrate \/ FinishOpen
  \/ ReplaceProgram
  \/ Work \/ CloseStore
  \/ StartBackup \/ CopyBackup \/ LinkBackup \/ SyncBackup
  \/ Others
  \/ Restore
  \/ Crash

Spec == Init /\ [][Next]_vars

-----------------------------------------------------------------------------
(* Files have the contents their paths allow.                              *)
TypeOK ==
  /\ main \in [Parts -> Contents \cup {NoFile}]
  /\ aside \in [Parts -> Contents \cup {NoFile}]
  /\ temporary \in Contents \cup {NoFile}
  /\ backup \in Contents \cup {NoFile, Foreign}
  /\ preUpgrade \in Contents \cup {NoFile, Foreign} /\ program \in Schemas
  /\ moved \subseteq Parts
  /\ before \in Contents \cup {NoFile}
  /\ source \in Versions
  /\ result \in Results
  /\ pc \in {"idle", "open"} \cup OpenPhases \cup BackupPhases \cup RestorePhases

(* Whenever the process dies, a database that is there has its own WAL or  *)
(* none, and never misses one that it needs: the next open neither applies *)
(* another database's transactions nor loses committed ones (the order of  *)
(* the renames in restore and rollback_restore).                           *)
Coherent ==
  main["db"] # NoFile =>
    /\ main["wal"] # NoFile =>
         main["wal"].v = main["db"].v /\ main["wal"].schema = main["db"].schema
    /\ main["db"].behind => main["wal"] # NoFile

(* The version of the backup is in place, and no WAL that could add to it. *)
Replaced ==
  /\ main["db"] \in Contents /\ main["db"].v = source /\ ~main["db"].behind
  /\ main["wal"] = NoFile

(* What the end of a restore says of the files, until the next operation   *)
(* on the store.  Success: the backup is installed and nothing is left of  *)
(* the old database.  An error says less.  It may come from before the     *)
(* replacement: then the old database is back, and nothing aside.  It may  *)
(* say that the rollback could not be completed: then there is no database,*)
(* and the old one is at the rollback path.  Or it may come from the       *)
(* removal of the rollback files (restore, after `install_result`): then   *)
(* the error is reported over a store that has been replaced, and what is  *)
(* still aside is the old database with its WAL or no database at all.     *)
RestoreResultHolds ==
  /\ result = "restored" => Replaced /\ aside = Nothing
  /\ result = "failed" => main["db"] = before /\ aside = Nothing
  /\ result = "rollback_failed" => main["db"] = NoFile /\ aside["db"] = before
  /\ result \in {"cleanup_failed", "crashed_late"} =>
       /\ Replaced
       /\ aside["db"] # NoFile =>
            /\ aside["db"] = before
            /\ before.behind => aside["wal"] = Whole(before)

(* Until the replacement has succeeded, the database that the restore      *)
(* found is still on disk, in place or in the rollback copy, with the      *)
(* transactions of its WAL (crates/vea-store/README.md on restore).        *)
RollbackCopyKept ==
  before # NoFile /\ (\/ pc \in RestorePhases \ CleanupPhases
                      \/ pc = "idle" /\ result \in {"failed", "rollback_failed", "crashed"}) =>
    /\ before \in {main["db"], aside["db"]}
    /\ before.behind =>
         Whole(before) \in {main["wal"], aside["wal"]}

(* The host works only on a database of the schema its build was made for, *)
(* whichever builds, upgrades, restores and crashes there were before      *)
(* ("version-gated", crates/vea-store/README.md:14).                   *)
SchemaFitsProgram ==
  pc \in {"open", "open_repair"} \cup BackupPhases => main["db"].schema = program

(* When an upgrade changes the schema of a database, a complete copy of it *)
(* as it was, in its old schema, is on disk (backup_database before the    *)
(* transaction of apply_migrations).                                       *)
UpgradeIsBackedUp ==
  [][ (/\ NoFile \notin {main["db"], main'["db"]}
       /\ main["db"].schema # 0
       /\ main'["db"].schema # main["db"].schema)
      => preUpgrade' = Whole(main["db"]) ]_vars

(* A backup is complete when it appears under its name, and `backup` never *)
(* replaces a file that is already there.                                  *)
BackupNeverOverwrites ==
  [][ backup' \in Contents =>
        \/ backup' = backup
        \/ backup = NoFile /\ backup' = preUpgrade
        \/ backup = NoFile /\ main["db"] # NoFile /\ backup' = Whole(main["db"]) ]_vars
=============================================================================
