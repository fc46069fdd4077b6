\* Upgrades, writes, moves and resets of two threads, each fault, two mishaps.
CONSTANTS
  Threads = {t1, t2}
  Commands = {"write", "move", "reset"}
  Faults = {"setting", "copy", "snapshot"}
  MaxEvents = 3
  MaxMishaps = 2
SPECIFICATION Spec
INVARIANTS UpgradesAreWhole UpgradesKeepTheOld NothingDestroyed TrailIsComplete
PROPERTIES FreshCommandsFollow
CHECK_DEADLOCK FALSE
SYMMETRY Interchangeable
