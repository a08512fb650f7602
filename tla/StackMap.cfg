\* Two threads, one page of the program's that may be a stack, and stacks
\* smaller and larger than the default. Threads may stop creating: deadlock is
\* not checked.
SPECIFICATION Spec
CONSTANTS
  Threads = {t1, t2}
  Free = Free
  Program = Program
  Top = 7
  Heap = {0}
  Default = 2
  Sizes = {1, 3}
CHECK_DEADLOCK FALSE
PROPERTIES
  UserStackKept
