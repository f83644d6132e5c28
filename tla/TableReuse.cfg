\* Threads with or without an alias, detached or not, one after the other in a
\* table of two entries; each may throw, and a call of pthread_create fails.
CONSTANTS
  Nobody = Nobody
  PThreads = {main, c1, c2}
  Main = main
  NSlots = 2
  IncMask = 3
  Aliases = {al}
  Creators = {main}
  Joiners = {main}
  Detachers = {}
  Throwers = {c1, c2}
  Modes = {FALSE, TRUE}
  Failures = 1
  SelfJoins = FALSE
  MaxLive = 2
SPECIFICATION Spec
INVARIANTS
  NoDanglingAlias
  ExitBallsKept
CHECK_DEADLOCK FALSE
