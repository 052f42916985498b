\* -A is longer than the time in which renewals are broadcast; reading may fail.
CONSTANTS
  Ip = {1, 2}
  Options = {"a", "b", "f", "n", "q", "R"}
  DiscoverRetries = 2
  DiscoverTimeout = 2
  TryagainTimeout = 6
  UnicastTime = 3
  LeaseOption <- LeaseTimes
  NoOption <- None
  DefaultLease = 8
  LeaseFloor = 4
  LeaseCeiling = 17
  ProbeTime = 2
  ReadErrors = TRUE
  IntMax = 17
SPECIFICATION FairSpec
INVARIANT ListensForAnswers
CHECK_DEADLOCK FALSE
