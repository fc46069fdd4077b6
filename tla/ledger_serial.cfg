\* One command at a time, a crash anywhere, every fault but a failing append; the
\* program is started again.
CONSTANTS
  Accounts = {a1}
  Codes = {c1, c2}
  Threads = {t1}
  Commands = {"activate", "revoke", "forgot"}
  Faults = {"db", "stage", "finalize"}
  MaxBatches = 2
  MaxCommands = 5
  MaxCrashes = 2
  NoAccount = NoAccount
  NoCode = NoCode
SPECIFICATION FairSpec
INVARIANTS LedgerVerifies RecordedOnce
PROPERTIES KeepsPromise BurnsGetRecorded
CHECK_DEADLOCK FALSE
