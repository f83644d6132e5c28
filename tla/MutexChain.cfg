\* Two threads create a mutex.
CONSTANTS
  Nobody = Nobody
  Threads = {t1, t2}
  Frames = {m1, m2}
  Creators = {t1, t2}
  Nesters = {}
  Triers = {}
  Strangers = {}
  Releasers = {}
  Destroyers = {}
  Exiters = {}
  Unpaired = {}
  Hasty = {}
  MaxLocks = 2
  MaxOps = 6
SPECIFICATION Spec
INVARIANTS
  NamedIsChained
CHECK_DEADLOCK FALSE
