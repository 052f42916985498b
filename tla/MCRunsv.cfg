\* A service with ./finish and without log; control/t may do the work of "t".
CONSTANTS
  HasLog = FALSE
  HasFinish = TRUE
  Command = {"u", "d", "o", "x", "t", "p", "c"}
  LogCommand = {}
  Handled = {"t"}
  Terminable = TRUE
  Pid = {1, 2}
  MaxQueue = 2
SPECIFICATION Spec
INVARIANTS SupervisesItsChildren FinishGetsRunStatus StatusIsCurrent
PROPERTY RestartsOnlyIfUp
CHECK_DEADLOCK FALSE
