\* Three derivations of four goals, in every order.
CONSTANTS
  p = p
  q = q
  r = r
  s = s
  Goals = {p, q, r, s}
  ListIds = {1, 2, 3}
  MaxAnswers = 3
  MaxLiterals = 4
  MaxOpen = 2
  Outdated = FALSE
SPECIFICATION Spec
INVARIANTS
  LinksHold
  ResidualIsReduct
PROPERTIES
  Shrinks
SYMMETRY Symmetry
