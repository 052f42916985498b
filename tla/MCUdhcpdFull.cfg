\* As many slots as addresses: the default of udhcpd.conf.
CONSTANTS
  a = a
  b = b
  c = c
  Mac = {a, b}
  ZeroMac = ZeroMac
  NoMac = NoMac
  StartIp = 254
  EndIp = 256
  ServerIp = 1
  OtherIp = {}
  StaticNip <- NoStatic
  MaxLeases = 9
  OfferTime = 1
  ConflictTime = 2
  DeclineTime = 2
  MinLease = 2
  MaxLease = 3
  LeaseOption = {0, 1}
  EarlyWrite = TRUE
  TimeWrap = 64
  MaxTime = 4
SPECIFICATION FairSpec
INVARIANTS QuarantineHonoured
PROPERTIES SearchEnds
CHECK_DEADLOCK FALSE
