\* Two threads on two kernel threads that keep to the protocol of the mutex.
SPECIFICATION Spec
CONSTANTS
  K = 2
  N = 2
  Main = Main
  Sched = Sched
  None = None
  Enders = {}
  MutexUsers = {0, 1}
  Careless = {}
  Killers = {}
  Targets = {}
  MaxCalls = 0
  MaxAlarms = 2
CHECK_DEADLOCK FALSE
PROPERTIES
  StrictLock
