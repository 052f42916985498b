\* Lease times from 4 to 17 seconds; renewals are broadcast from 4 seconds on.
CONSTANTS
  Ip = {1, 2}
  Options = {"a", "b", "f", "n", "q", "R"}
  DiscoverRetries = 2
  DiscoverTimeout = 2
  TryagainTimeout = 2
  UnicastTime = 3
  LeaseOption <- LeaseTimes
  NoOption <- None
  DefaultLease = 8
  LeaseFloor = 4
  LeaseCeiling = 17
  ProbeTime = 2
  ReadErrors = FALSE
  IntMax = 17
SPECIFICATION FairSpec
INVARIANTS LeaseRespected ConfiguredAsStated FailsOnlyWithoutLease
PROPERTY KeepsAsking
CHECK_DEADLOCK FALSE
