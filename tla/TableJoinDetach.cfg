\* A thread is joined by one thread and detached by another.
CONSTANTS
  Nobody = Nobody
  PThreads = {main, c1, c2}
  Main = main
  NSlots = 4
  IncMask = 1
  Aliases = {}
  Creators = {main}
  Joiners = {main}
  Detachers = {c1}
  Throwers = {}
  Modes = {FALSE}
  Failures = 0
  SelfJoins = FALSE
  MaxLive = 4
SPECIFICATION Spec
PROPERTIES
  ImplementsThreadLife
CHECK_DEADLOCK FALSE
