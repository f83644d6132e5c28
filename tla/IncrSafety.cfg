\* Three tables over two leaves: a chain, a cycle and a condition.
CONSTANTS
  p = p
  q = q
  r = r
  e = e
  f = f
  a = a
  b = b
  Top = Top
  Subgoals = {p, q, r}
  Leaves = {e, f}
  Answers = {a}
  Programs <- AllPrograms
  CountRange = 16
  MaxUpdates = 2
  MaxCursors = 1
  SpentQueries = FALSE
  ThrowsAnywhere = FALSE
SPECIFICATION Spec
INVARIANTS
  TypeOK
  NoStaleTable
  GraphAgrees
  CountsCover
CHECK_DEADLOCK FALSE
