\* Two threads that throw are joined.
CONSTANTS
  Nobody = Nobody
  PThreads = {main, c1, c2}
  Main = main
  NSlots = 4
  IncMask = 1
  Aliases = {}
  Creators = {main}
  Joiners = {main}
  Detachers = {}
  Throwers = {c1, c2}
  Modes = {FALSE}
  Failures = 0
  SelfJoins = FALSE
  MaxLive = 4
SPECIFICATION Spec
INVARIANTS
  JoinReturnsOwnBall
CHECK_DEADLOCK FALSE
