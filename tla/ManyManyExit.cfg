\* A thread that is not the newest ends.
SPECIFICATION Spec
CONSTANTS
  K = 2
  N = 3
  Main = Main
  Sched = Sched
  None = None
  Enders = {0}
  MutexUsers = {}
  Careless = {}
  Killers = {}
  Targets = {}
  MaxCalls = 0
  MaxAlarms = 0
CHECK_DEADLOCK FALSE
PROPERTIES
  ExitEndsCaller
