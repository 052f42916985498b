\* Two hosts and two addresses; one packet of a host at a time is in flight to another.
SPECIFICATION Spec
CONSTANTS
    Hosts = {h1, h2}
    Ips = {a1, a2}
    NoIp = NoIp
    NoHost = NoHost
    ProbeWait = 1
    ProbeMin = 1
    ProbeMax = 2
    ProbeNum = 2
    MaxConflicts = 2
    AnnounceNum = 1
    AnnounceInterval = 2
    DefendInterval = 3
    MaxLost = 2
    MaxInFlight = 1
INVARIANTS
    ZcipTypeOK
    NeverShared
PROPERTIES
    EstablishedStays
    SharingEnds
