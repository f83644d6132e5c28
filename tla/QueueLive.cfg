\* Two senders, two receivers, one queue that is created and destroyed.
CONSTANTS
  Nobody = Nobody
  Threads = {t1, t2, t3}
  PubSlots = {s1}
  PrivSlots = {}
  Kinds = {a}
  MaxTerms = 1
  IncMask = 1
  Senders = {t1, t2}
  Receivers = {t2, t3}
  Peekers = {}
  Managers = {t1}
  MaxSends = 2
  MaxCreates = 1
  MaxSignals = 0
  MaxOpen = 1
  SignalKinds = {}
SPECIFICATION FairSpec
PROPERTIES
  DestroyedReclaimed
  ReceiverWoken
  SenderWoken
CHECK_DEADLOCK FALSE
