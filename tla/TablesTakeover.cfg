\* A thread takes over a thread that waits no more.
CONSTANTS
  t1 = t1
  t2 = t2
  t3 = t3
  a = a
  b = b
  c = c
  d = d
  e = e
  Nobody = Nobody
  Threads = {t1, t2}
  Subgoals = {a, b, c}
  Negation = "none"
  Programs <- AllPrograms
SPECIFICATION Spec
PROPERTIES
  TakesOverOneScc
CHECK_DEADLOCK FALSE
