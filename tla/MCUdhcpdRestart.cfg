\* Stops and crashes at any step, and a second start.
CONSTANTS
  a = a
  b = b
  Mac = {a, b}
  ZeroMac = ZeroMac
  NoMac = NoMac
  StartIp = 1
  EndIp = 2
  ServerIp = 9
  OtherIp = {}
  StaticNip <- NoStatic
  MaxLeases = 2
  OfferTime = 1
  ConflictTime = 1
  DeclineTime = 1
  MinLease = 1
  MaxLease = 3
  LeaseOption = {0, 1}
  EarlyWrite = TRUE
  TimeWrap = 64
  MaxTime = 3
  FileMaxAge = 1
  MaxRuns = 2
SPECIFICATION RestartSpec
SYMMETRY Clients
INVARIANTS LeaseTableConsistent AckOutlivesRestart ExclusiveAfterRestart ClientsLoaded
CHECK_DEADLOCK FALSE
