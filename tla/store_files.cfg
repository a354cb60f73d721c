CONSTANTS
  MaxVersion = 2
  MaxSchema = 3
  Failable = {"open_check", "upgrade_create", "upgrade_copy", "migrate", "open_repair", "backup_copy", "backup_link", "restore_copy", "validate", "move_wal", "move_shm", "install", "check", "rollback_shm", "rollback_wal", "rollback_db", "cleanup_db", "cleanup_wal", "cleanup_shm", "cleanup_sync"}
  NoFile = NoFile
  Foreign = Foreign
SPECIFICATION Spec
INVARIANTS TypeOK Coherent RestoreResultHolds RollbackCopyKept SchemaFitsProgram
PROPERTIES BackupNeverOverwrites UpgradeIsBackedUp
