\* A detached thread exits before its creator goes on.
CONSTANTS
  Nobody = Nobody
  PThreads = {main, c1}
  Main = main
  NSlots = 4
  IncMask = 1
  Aliases = {}
  Creators = {main}
  Joiners = {main}
  Detachers = {main}
  Throwers = {}
  Modes = {TRUE}
  Failures = 0
  SelfJoins = FALSE
  MaxLive = 4
SPECIFICATION Spec
INVARIANTS
  FreeIsInvalid
CHECK_DEADLOCK FALSE
