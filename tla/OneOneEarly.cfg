\* Main creates and joins one thread, on fair processors: the thread may be
\* through before its thread_create has inserted its node. The program may stop
\* calling, so deadlock is not checked.
SPECIFICATION FairSpec
CONSTANTS
  Main = Main
  Kids = {k1}
  NoTid = NoTid
  Null = Null
  Values = {v1}
  Garbage = Garbage
  HeapStates = {Garbage}
  Joiners = {Main}
  MaxJoins = 1
  MaxKills = 0
  MainExits = FALSE
CHECK_DEADLOCK FALSE
PROPERTIES
  JoinOfDeadReturns
