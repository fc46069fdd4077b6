\* Starts, stops, updates and tokens overlap in any order.
CONSTANTS
  Tasks = {t1, t2, t3}
  Nil = Nil
  MaxStarts = 2
SPECIFICATION LanFairSpec
INVARIANTS NoOrphanListener TokensDieWithTheirServer
PROPERTIES NoStrayRevocation StopsFinish
