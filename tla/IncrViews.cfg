\* Two open queries of two tables, with two answers each.
CONSTANTS
  p = p
  q = q
  r = r
  e = e
  f = f
  a = a
  b = b
  Top = Top
  Subgoals = {p, q}
  Leaves = {e}
  Answers = {a, b}
  Programs <- Pair
  CountRange = 16
  MaxUpdates = 2
  MaxCursors = 2
  SpentQueries = FALSE
  ThrowsAnywhere = FALSE
SPECIFICATION FairSpec
INVARIANTS
  VisitorsCounted
PROPERTIES
  ImplementsFreshTables
  QueryReturns
CHECK_DEADLOCK FALSE
