SPECIFICATION FairSpec
CONSTANTS
  Server = {s1, s2, s3}
  Legacy = {s1}
  Gateway = {g1}
  Keeper = {k1}
  None = None
  s1 = s1
  s2 = s2
  s3 = s3
  g1 = g1
  k1 = k1
  MaxCrashes = 1
INVARIANTS WritersHoldTheLease ServersCanBeFound LaunchesAreUndisturbed HandoffsLeaveNoCorpse
PROPERTIES GateIsReleased
CHECK_DEADLOCK FALSE
