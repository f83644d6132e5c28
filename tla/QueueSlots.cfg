\* Three public slots of which at most two are queues, so that the free list is
\* never exhausted, the private queue of a thread that may exit, receivers that
\* wait, and a goal or a cancellation signalled at any moment.
CONSTANTS
  Nobody = Nobody
  Threads = {t1, t2}
  PubSlots = {s1, s2, s3}
  PrivSlots = {p1}
  Kinds = {a}
  MaxTerms = 1
  IncMask = 3
  Senders = {}
  Receivers = {t2}
  Peekers = {}
  Managers = {t1, t2}
  MaxSends = 0
  MaxCreates = 3
  MaxSignals = 1
  MaxOpen = 2
  SignalKinds = {"goal", "cancel"}
SPECIFICATION Spec
INVARIANTS
  WaitersCounted
  FreeSlotUnused
  ListsPartition
CHECK_DEADLOCK FALSE
