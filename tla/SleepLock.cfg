\* Three kernel threads that call acquiresleep and releasesleep in any order.
SPECIFICATION FairSpec
CONSTANTS
  Threads = {t1, t2, t3}
  NoTid = NoTid
INVARIANTS
  TypeOK
PROPERTIES
  ImplementsLock
  UsesSpinLegally
  FreeLockTaken
