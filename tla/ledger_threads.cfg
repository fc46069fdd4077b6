\* Two threads, and a USB drive that comes and goes.
CONSTANTS
  Accounts = {a1}
  Codes = {c1, c2}
  Threads = {t1, t2}
  Commands = {"activate", "revoke", "forgot"}
  Faults = {"append", "tear", "usb"}
  MaxBatches = 1
  MaxCommands = 3
  MaxCrashes = 1
  NoAccount = NoAccount
  NoCode = NoCode
SPECIFICATION Spec
SYMMETRY Symmetry
INVARIANTS NoPhantomRecords MirrorIsPrefix
PROPERTIES RowBurnedOnce
CHECK_DEADLOCK FALSE
