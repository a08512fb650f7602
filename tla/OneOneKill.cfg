\* One thread_kill at any moment, of a thread in any state, library code
\* included; every thread joins, so that two clean up the same node; and main
\* returns at any moment. The program may stop calling, and the busy waits are
\* disabled steps, so deadlock is not checked.
SPECIFICATION Spec
CONSTANTS
  Main = Main
  Kids = {k1, k2}
  NoTid = NoTid
  Null = Null
  Values = {}
  Garbage = Garbage
  HeapStates = {Garbage}
  Joiners = {Main, k1, k2}
  MaxJoins = 2
  MaxKills = 1
  MainExits = TRUE
CHECK_DEADLOCK FALSE
SYMMETRY KidSymmetry
INVARIANTS
  SectionOwned
  NodeInOnePlace
