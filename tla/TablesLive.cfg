\* The same with two threads, under fairness.
CONSTANTS
  t1 = t1
  t2 = t2
  t3 = t3
  a = a
  b = b
  c = c
  d = d
  e = e
  Nobody = Nobody
  Threads = {t1, t2}
  Subgoals = {a, b, c}
  Negation = "stratified"
  Programs <- AllPrograms
SPECIFICATION FairSpec
PROPERTIES
  EveryCallReturns
CHECK_DEADLOCK FALSE
