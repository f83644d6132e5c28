\* A thread that is to be reset takes over others, and completes a table before
\* one that it depends on. With Programs <- TwoLeaders and OneProducer for
\* CompletedClosed: a deadlock leader takes a subgoal another leader has grabbed.
CONSTANTS
  t1 = t1
  t2 = t2
  t3 = t3
  a = a
  b = b
  c = c
  d = d
  e = e
  Nobody = Nobody
  Threads = {t1, t2, t3}
  Subgoals = {a, b, c, d, e}
  Negation = "none"
  Programs <- TakenOver
SPECIFICATION Spec
INVARIANTS
  CompletedClosed
CHECK_DEADLOCK FALSE
