\* A table for three threads that is full.
CONSTANTS
  Nobody = Nobody
  PThreads = {main, c1, c2, c3}
  Main = main
  NSlots = 3
  IncMask = 1
  Aliases = {}
  Creators = {main}
  Joiners = {main}
  Detachers = {}
  Throwers = {}
  Modes = {FALSE}
  Failures = 0
  SelfJoins = FALSE
  MaxLive = 4
SPECIFICATION Spec
INVARIANTS
  ListsPartition
CHECK_DEADLOCK FALSE
