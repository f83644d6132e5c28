\* An alias is used twice, in an entry that was used before.
CONSTANTS
  Nobody = Nobody
  PThreads = {main, c1, c2, c3}
  Main = main
  NSlots = 3
  IncMask = 1
  Aliases = {al}
  Creators = {main}
  Joiners = {main}
  Detachers = {}
  Throwers = {}
  Modes = {FALSE, TRUE}
  Failures = 0
  SelfJoins = FALSE
  MaxLive = 4
SPECIFICATION Spec
INVARIANTS
  NoFault
CHECK_DEADLOCK FALSE
