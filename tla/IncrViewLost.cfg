\* A query is called over the spent choice point of its table.
CONSTANTS
  p = p
  q = q
  r = r
  e = e
  f = f
  a = a
  b = b
  Top = Top
  Subgoals = {p, q}
  Leaves = {e}
  Answers = {a, b}
  Programs <- Pair
  CountRange = 16
  MaxUpdates = 3
  MaxCursors = 2
  SpentQueries = TRUE
  ThrowsAnywhere = FALSE
SPECIFICATION Spec
PROPERTIES
  ImplementsFreshTables
CHECK_DEADLOCK FALSE
