\* Two public slots, both queues at a time: the free list is exhausted.
CONSTANTS
  Nobody = Nobody
  Threads = {t1}
  PubSlots = {s1, s2}
  PrivSlots = {}
  Kinds = {a}
  MaxTerms = 1
  IncMask = 3
  Senders = {}
  Receivers = {}
  Peekers = {}
  Managers = {t1}
  MaxSends = 0
  MaxCreates = 4
  MaxSignals = 0
  MaxOpen = 2
  SignalKinds = {}
SPECIFICATION Spec
INVARIANTS
  ListsPartition
CHECK_DEADLOCK FALSE
