\* Three threads, three subgoals, every call graph without a call of a subgoal
\* to itself, each thread with one query.
CONSTANTS
  t1 = t1
  t2 = t2
  t3 = t3
  a = a
  b = b
  c = c
  d = d
  e = e
  Nobody = Nobody
  Threads = {t1, t2, t3}
  Subgoals = {a, b, c}
  Negation = "any"
  Programs <- AllPrograms
SPECIFICATION Spec
INVARIANTS
  TypeOK
  OneProducer
  CompletedClosed
  WalkEnds
  NoDeadlock
  LeaderIsFree
SYMMETRY Symmetry
CHECK_DEADLOCK FALSE
