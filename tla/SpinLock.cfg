\* Three kernel threads, every order of their accesses to the two fields.
SPECIFICATION FairSpec
CONSTANTS
  Threads = {t1, t2, t3}
  NoTid = NoTid
INVARIANTS
  TypeOK
  OwnerNamed
PROPERTIES
  ImplementsLock
  LockHandedOn
