\* One slot for two addresses and two clients; leases of four seconds.
CONSTANTS
  Mac = {me, other}
  Me = me
  ZeroMac = ZeroMac
  NoMac = NoMac
  StartIp = 2
  EndIp = 3
  MaxLeases = 1
  OfferTime = 1
  ConflictTime = 1
  DeclineTime = 1
  MinLease = 1
  MaxLease = 4
  Options = {"a"}
  DiscoverRetries = 2
  DiscoverTimeout = 1
  TryagainTimeout = 1
  UnicastTime = 1
  LeaseFloor = 2
  LeaseCeiling = 4
  ProbeTime = 1
  IntMax = 9
  MaxDelay = 1
  TimeWrap = 64
  MaxTime = 6
  MaxXid = 2
  MaxWaiting = 1
VIEW Seen
SPECIFICATION Spec
INVARIANTS LeaseAgreed NoTwoUsers
CHECK_DEADLOCK FALSE
