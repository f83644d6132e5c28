\* Two threads with an alias.
CONSTANTS
  Nobody = Nobody
  PThreads = {main, c1, c2}
  Main = main
  NSlots = 4
  IncMask = 1
  Aliases = {al, bl}
  Creators = {main}
  Joiners = {main}
  Detachers = {}
  Throwers = {}
  Modes = {FALSE}
  Failures = 0
  SelfJoins = FALSE
  MaxLive = 4
SPECIFICATION Spec
PROPERTIES
  AliasKept
CHECK_DEADLOCK FALSE
