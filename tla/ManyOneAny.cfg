\* The alarm at every step of every stack, the scheduler's included; programs
\* that use the mutex as they like. A spinlock held by a thread that lost the
\* processor, and an undefined jump, stop the system: deadlock is not
\* checked.
SPECIFICATION Spec
CONSTANTS
  Main = Main
  Kids = {k1, k2}
  NoTid = NoTid
  Sched = Sched
  Lockers = {Main, k1, k2}
  Joiners = {Main}
  Senders = {}
  MaxJoins = 1
  MaxKills = 0
  MaxSigs = 0
  Slots = 2
  Disciplined = FALSE
CHECK_DEADLOCK FALSE
SYMMETRY KidSymmetry
INVARIANTS
  TypeOK
  ListLockFree
  CurrRuns
  NoLostWakeup
  SpinsForUnlock
PROPERTIES
  ImplementsLock
