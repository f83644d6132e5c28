\* A thread exits while another one is created.
CONSTANTS
  Nobody = Nobody
  PThreads = {main, c1, c2}
  Main = main
  NSlots = 4
  IncMask = 1
  Aliases = {}
  Creators = {main}
  Joiners = {}
  Detachers = {}
  Throwers = {}
  Modes = {TRUE}
  Failures = 0
  SelfJoins = FALSE
  MaxLive = 4
SPECIFICATION Spec
INVARIANTS
  AloneWhenCounted
CHECK_DEADLOCK FALSE
