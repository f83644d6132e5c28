\* A mutex is destroyed while a thread that exits walks the chain.
CONSTANTS
  Nobody = Nobody
  Threads = {t1, t2}
  Frames = {m1, m2}
  Creators = {t1}
  Nesters = {t1}
  Triers = {t2}
  Strangers = {}
  Releasers = {t1}
  Destroyers = {t1}
  Exiters = {t1, t2}
  Unpaired = {m2}
  Hasty = {t2}
  MaxLocks = 2
  MaxOps = 8
SPECIFICATION Spec
INVARIANTS
  GoneHoldsNothing
CHECK_DEADLOCK FALSE
