\* The same private queue with room for one term: senders wait on it.
CONSTANTS
  Nobody = Nobody
  Threads = {t1, t2, t3}
  PubSlots = {}
  PrivSlots = {p1}
  Kinds = {a, b}
  MaxTerms = 1
  IncMask = 1
  Senders = {t2, t3}
  Receivers = {}
  Peekers = {}
  Managers = {t1}
  MaxSends = 2
  MaxCreates = 1
  MaxSignals = 0
  MaxOpen = 1
  SignalKinds = {}
SPECIFICATION Spec
PROPERTIES
  ImplementsTermQueue
CHECK_DEADLOCK FALSE
