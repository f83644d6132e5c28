\* An exception ends a re-evaluation.
CONSTANTS
  p = p
  q = q
  r = r
  e = e
  f = f
  a = a
  b = b
  Top = Top
  Subgoals = {p, q}
  Leaves = {e}
  Answers = {a}
  Programs <- Pair
  CountRange = 16
  MaxUpdates = 2
  MaxCursors = 1
  SpentQueries = FALSE
  ThrowsAnywhere = TRUE
SPECIFICATION Spec
INVARIANTS
  TypeOK
CHECK_DEADLOCK FALSE
