\* Main and one thread that use the mutex as its interface asks; main joins the
\* other. A spinlock held by a thread that lost its processor and an undefined
\* jump stop the system: deadlock is not checked.
SPECIFICATION FairSpec
CONSTANTS
  Main = Main
  Kids = {k1}
  NoTid = NoTid
  Sched = Sched
  Lockers = {Main, k1}
  Joiners = {Main}
  Senders = {}
  MaxJoins = 1
  MaxKills = 0
  MaxSigs = 0
  Slots = 2
  Disciplined = TRUE
CHECK_DEADLOCK FALSE
PROPERTIES
  RunnableRuns
  FreeMutexTaken
