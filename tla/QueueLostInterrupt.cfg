\* A thread is cancelled on its way into a wait.
CONSTANTS
  Nobody = Nobody
  Threads = {t1, t2}
  PubSlots = {s1}
  PrivSlots = {}
  Kinds = {a, b}
  MaxTerms = 1
  IncMask = 1
  Senders = {}
  Receivers = {t2}
  Peekers = {}
  Managers = {t1}
  MaxSends = 2
  MaxCreates = 1
  MaxSignals = 1
  MaxOpen = 1
  SignalKinds = {"cancel"}
SPECIFICATION FairSpec
PROPERTIES
  SignalHandled
CHECK_DEADLOCK FALSE
