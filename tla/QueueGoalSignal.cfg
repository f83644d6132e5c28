\* A goal is signalled to a thread that uses a queue.
CONSTANTS
  Nobody = Nobody
  Threads = {t1, t2}
  PubSlots = {s1}
  PrivSlots = {}
  Kinds = {a, b}
  MaxTerms = 1
  IncMask = 1
  Senders = {t1}
  Receivers = {t2}
  Peekers = {}
  Managers = {t1}
  MaxSends = 2
  MaxCreates = 1
  MaxSignals = 1
  MaxOpen = 1
  SignalKinds = {"goal"}
SPECIFICATION Spec
INVARIANTS
  NoFault
CHECK_DEADLOCK FALSE
