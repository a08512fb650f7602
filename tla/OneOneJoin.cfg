\* Main and two threads that create, join and end, in every order; a routine
\* may end before its thread_create has inserted its node. The program may
\* stop calling, and the busy waits are disabled steps, so deadlock is not
\* checked.
SPECIFICATION Spec
CONSTANTS
  Main = Main
  Kids = {k1, k2}
  NoTid = NoTid
  Null = Null
  Values = {v1}
  Garbage = Garbage
  HeapStates = {Garbage}
  Joiners = {Main, k1, k2}
  MaxJoins = 2
  MaxKills = 0
  MainExits = FALSE
CHECK_DEADLOCK FALSE
INVARIANTS
  TypeOK
  JoinMeansDone
  ValueDelivered
  NodeConserved
PROPERTIES
  TerminatedIsFinal
