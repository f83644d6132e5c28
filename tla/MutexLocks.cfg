\* Two threads and two mutexes: one whose locks are paired, one that is nested,
\* tried and destroyed; both threads exit.
CONSTANTS
  Nobody = Nobody
  Threads = {t1, t2}
  Frames = {m1, m2}
  Creators = {t1}
  Nesters = {t1}
  Triers = {t2}
  Strangers = {}
  Releasers = {t1}
  Destroyers = {t1}
  Exiters = {t1, t2}
  Unpaired = {m2}
  Hasty = {}
  MaxLocks = 2
  MaxOps = 8
SPECIFICATION FairSpec
INVARIANTS
  TypeOK
  OwnerHolds
  HolderIsRecorded
  GoneHoldsNothing
PROPERTIES
  ExitEnds
CHECK_DEADLOCK FALSE
