\* A service with a log service and without ./finish, killed, ended, told to exit.
CONSTANTS
  HasLog = TRUE
  HasFinish = FALSE
  Command = {"d", "o", "x", "k"}
  LogCommand = {"x", "k"}
  Handled = {}
  Terminable = TRUE
  Pid = {1, 2}
  MaxQueue = 1
SPECIFICATION FairSpec
INVARIANT NoLostDeath
PROPERTIES KeptUp ExitsWhenAsked
CHECK_DEADLOCK FALSE
