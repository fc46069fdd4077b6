\* Restores, writes and status calls of two threads, every fault, two crashes.
CONSTANTS
  Threads = {t1, t2}
  Commands = {"status", "write", "restore", "revert"}
  Faults = {"snapshot", "stage", "rename", "damage", "verify", "rollback"}
  OpenFilesMove = FALSE
  Quota = 4
  MaxCommands = 3
  MaxCrashes = 2
SPECIFICATION FairSpec
INVARIANTS NeverBlank WritesKept QuietWritesKept
PROPERTIES AllOrNothing ComesUp
CHECK_DEADLOCK FALSE
