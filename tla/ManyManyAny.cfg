\* Two kernel threads and three threads, the third of which waits in the list
\* for one of them; signals at every step. 1 and 2 share the mutex, 2 without
\* minding its protocol; 1 ends, is killed by 2 or joined by main. A spinlock
\* held by a thread that lost its processor and an undefined jump stop the
\* system: deadlock is not checked.
SPECIFICATION Spec
CONSTANTS
  K = 2
  N = 3
  Main = Main
  Sched = Sched
  None = None
  Enders = {1}
  MutexUsers = {1, 2}
  Careless = {2}
  Killers = {2}
  Targets = {1}
  MaxCalls = 1
  MaxAlarms = 2
CHECK_DEADLOCK FALSE
INVARIANTS
  TypeOK
  CurrRuns
  NoLostWakeup
PROPERTIES
  ImplementsLock
