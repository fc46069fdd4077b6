\* One start on each database of an older release.
CONSTANTS
  Threads = {t1}
  Commands = {}
  Faults = {}
  MaxMishaps = 0
  MaxEvents = 0
SPECIFICATION Spec
INVARIANTS UpgradesAreComplete
CHECK_DEADLOCK FALSE
