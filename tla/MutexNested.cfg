\* A thread locks twice, unlocks once and exits.
CONSTANTS
  Nobody = Nobody
  Threads = {t1, t2}
  Frames = {m1}
  Creators = {t1}
  Nesters = {t1}
  Triers = {}
  Strangers = {}
  Releasers = {}
  Destroyers = {}
  Exiters = {t1}
  Unpaired = {m1}
  Hasty = {}
  MaxLocks = 2
  MaxOps = 6
SPECIFICATION Spec
INVARIANTS
  ExitReleasesAll
CHECK_DEADLOCK FALSE
