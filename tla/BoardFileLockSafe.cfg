\* Three processes; one may die, one lock file may be left behind.
CONSTANTS
  Proc = {p1, p2, p3}
  NoLock = NoLock
  MaxCrashes = 1
  MaxLeaks = 1
SPECIFICATION FairSpec
INVARIANTS ExclusiveUnlessRaced NoEditLost
PROPERTIES EveryWriterFinishes
