\* Three threads, one public slot created twice, one term per queue, two terms
\* of two kinds sent, no signals.
CONSTANTS
  Nobody = Nobody
  Threads = {t1, t2, t3}
  PubSlots = {s1}
  PrivSlots = {}
  Kinds = {a, b}
  MaxTerms = 1
  IncMask = 1
  Senders = {t2}
  Receivers = {t2, t3}
  Peekers = {t3}
  Managers = {t1}
  MaxSends = 2
  MaxCreates = 2
  MaxSignals = 0
  MaxOpen = 1
  SignalKinds = {}
SPECIFICATION Spec
INVARIANTS
  TypeOK
  ReceiverHoldsQueue
  NoFault
PROPERTIES
  DeletedStaysQuiet
  ImplementsTermQueue
CHECK_DEADLOCK FALSE
