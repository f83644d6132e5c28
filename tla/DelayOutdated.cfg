\* A negation delayed before its goal becomes true is kept in an answer.
CONSTANTS
  p = p
  q = q
  r = r
  s = s
  Goals = {p, q, r}
  ListIds = {1, 2, 3}
  MaxAnswers = 3
  MaxLiterals = 4
  MaxOpen = 2
  Outdated = TRUE
SPECIFICATION Spec
INVARIANTS
  ResidualIsReduct
SYMMETRY Symmetry
CHECK_DEADLOCK FALSE
