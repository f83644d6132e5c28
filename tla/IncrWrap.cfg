\* A falsecount of two bits and four invalidations.
CONSTANTS
  p = p
  q = q
  r = r
  e = e
  f = f
  a = a
  b = b
  Top = Top
  Subgoals = {p, q}
  Leaves = {e}
  Answers = {a}
  Programs <- Pair
  CountRange = 4
  MaxUpdates = 4
  MaxCursors = 1
  SpentQueries = FALSE
  ThrowsAnywhere = FALSE
SPECIFICATION Spec
INVARIANTS
  NoStaleTable
CHECK_DEADLOCK FALSE
