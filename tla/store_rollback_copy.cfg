CONSTANTS
  MaxVersion = 1
  MaxSchema = 1
  Failable = {"move_db"}
  NoFile = NoFile
  Foreign = Foreign
SPECIFICATION Spec
INVARIANT RollbackCopyKept
