\* A thread unlocks a mutex that another one holds.
CONSTANTS
  Nobody = Nobody
  Threads = {t1, t2}
  Frames = {m1}
  Creators = {t1}
  Nesters = {}
  Triers = {}
  Strangers = {t2}
  Releasers = {}
  Destroyers = {}
  Exiters = {}
  Unpaired = {}
  Hasty = {}
  MaxLocks = 2
  MaxOps = 6
SPECIFICATION Spec
INVARIANTS
  HolderIsRecorded
CHECK_DEADLOCK FALSE
