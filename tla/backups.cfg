\* The scheduler, the registered device and its retries, a user and a mishap.
CONSTANTS
  Interval = 2
  Fresh = 2
  Retention = 3
  Delay <- Delays
  SetBack = 1
  MaxSetBacks = 1
  MaxMishaps = 1
SPECIFICATION Spec
INVARIANTS ProtectedIsTrue NothingMissing
PROPERTIES BackupsGoOn
