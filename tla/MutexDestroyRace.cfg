\* A mutex is destroyed between the lookup of its alias and its use.
CONSTANTS
  Nobody = Nobody
  Threads = {t1, t2}
  Frames = {m1}
  Creators = {t1}
  Nesters = {}
  Triers = {}
  Strangers = {}
  Releasers = {}
  Destroyers = {t2}
  Exiters = {}
  Unpaired = {}
  Hasty = {}
  MaxLocks = 2
  MaxOps = 6
SPECIFICATION Spec
INVARIANTS
  NoFault
CHECK_DEADLOCK FALSE
