SPECIFICATION Spec
CONSTANTS
  Requests = {1, 2, 3}
  Tenants = {0, 9}
  Slugs = {"default", "theirs"}
  Migrations = 2
  Found <- FoundArchives
  NewDefaults <- OneDefault
  MaxInFlight = 2
INVARIANTS MigratedOnceFirst BackupIsSnapshot RestoredIsArchive BackupListed
CHECK_DEADLOCK FALSE
