\* Two services, and two directories between which svdir is switched.
CONSTANTS
  a = a
  b = b
  d = d
  e = e
  Service = {a, b}
  Dir = {d, e}
  NoDir = nodir
  NoService = nosvc
  Contents <- Linked
  Pid = {1, 2}
  Options = {{}, {"init", "s"}}
  MaxUpsets = 2
SPECIFICATION FairSpec
INVARIANT EachIsKnown
PROPERTIES SparesWhatStays HangupStopsAll KeptSupervised RemovedAreStopped
CHECK_DEADLOCK FALSE
