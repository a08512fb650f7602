\* A thread_kill (_, SIGTERM) of any thread in any state, sleepers included,
\* and a user signal to any thread. An undefined jump stops the system:
\* deadlock is not checked.
SPECIFICATION Spec
CONSTANTS
  Main = Main
  Kids = {k1, k2}
  NoTid = NoTid
  Sched = Sched
  Lockers = {k1, k2}
  Joiners = {}
  Senders = {Main}
  MaxJoins = 0
  MaxKills = 1
  MaxSigs = 1
  Slots = 1
  Disciplined = TRUE
CHECK_DEADLOCK FALSE
SYMMETRY KidSymmetry
INVARIANTS
  AlarmComes
PROPERTIES
  TerminatedStays
