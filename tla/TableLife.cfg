\* The main thread creates two threads, and joins or detaches them at any
\* moment; the table is never full.
CONSTANTS
  Nobody = Nobody
  PThreads = {main, c1, c2}
  Main = main
  NSlots = 4
  IncMask = 1
  Aliases = {}
  Creators = {main}
  Joiners = {main}
  Detachers = {main}
  Throwers = {}
  Modes = {FALSE}
  Failures = 0
  SelfJoins = FALSE
  MaxLive = 3
SPECIFICATION FairSpec
INVARIANTS
  TypeOK
  ListsPartition
  RunningOwnsEntry
PROPERTIES
  ImplementsThreadLife
  DetachedReclaimed
CHECK_DEADLOCK FALSE
