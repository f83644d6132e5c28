\* A thread gets a mutex by mutex_trylock/1.
CONSTANTS
  Nobody = Nobody
  Threads = {t1, t2}
  Frames = {m1}
  Creators = {t1}
  Nesters = {}
  Triers = {t1}
  Strangers = {}
  Releasers = {}
  Destroyers = {}
  Exiters = {}
  Unpaired = {m1}
  Hasty = {}
  MaxLocks = 2
  MaxOps = 6
SPECIFICATION Spec
INVARIANTS
  HolderAlwaysRecorded
CHECK_DEADLOCK FALSE
