\* A mutex is destroyed while it is locked.
CONSTANTS
  Nobody = Nobody
  Threads = {t1, t2}
  Frames = {m1}
  Creators = {t1}
  Nesters = {}
  Triers = {}
  Strangers = {}
  Releasers = {}
  Destroyers = {t2}
  Exiters = {}
  Unpaired = {}
  Hasty = {}
  MaxLocks = 2
  MaxOps = 6
SPECIFICATION Spec
INVARIANTS
  HeldIsNamed
CHECK_DEADLOCK FALSE
