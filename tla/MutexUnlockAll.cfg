\* A thread releases a mutex another one waits for.
CONSTANTS
  Nobody = Nobody
  Threads = {t1, t2}
  Frames = {m1}
  Creators = {t1}
  Nesters = {}
  Triers = {}
  Strangers = {}
  Releasers = {t1}
  Destroyers = {}
  Exiters = {}
  Unpaired = {}
  Hasty = {t1, t2}
  MaxLocks = 2
  MaxOps = 6
SPECIFICATION Spec
INVARIANTS
  UnlockAllSucceeds
CHECK_DEADLOCK FALSE
