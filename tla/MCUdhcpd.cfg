\* Two slots for a pool of three addresses, one of them .255; a static client.
CONSTANTS
  a = a
  b = b
  c = c
  Mac = {a, b, c}
  ZeroMac = ZeroMac
  NoMac = NoMac
  StartIp = 253
  EndIp = 255
  ServerIp = 1
  OtherIp = {}
  StaticNip <- StaticOutside
  MaxLeases = 2
  OfferTime = 1
  ConflictTime = 2
  DeclineTime = 2
  MinLease = 2
  MaxLease = 3
  LeaseOption = {0, 1}
  EarlyWrite = TRUE
  TimeWrap = 64
  MaxTime = 4
SPECIFICATION Spec
SYMMETRY Clients
INVARIANTS ExclusivePromises PromiseBacked PromiseKept
PROPERTIES ImplementsAddressBook QuietSearchFinds
CHECK_DEADLOCK FALSE
