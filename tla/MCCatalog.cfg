\* One row or two of each table; toggles, references and deletions, or another
\* write, meet an open request.
CONSTANTS
  c1 = c1
  c2 = c2
  c3 = c3
  b1 = b1
  s1 = s1
  p1 = p1
  p2 = p2
  v1 = v1
  v2 = v2
  x1 = x1
  x2 = x2
  w1 = w1
  k1 = k1
  k2 = k2
  Ids = {c1, c2, c3, b1, s1, p1, p2, v1, v2, x1, x2, w1}
  KindOf <- Kind
  Seed <- Stocked
  Codes = {k1, k2}
  NoCode = NoCode
  Calls = {q1}
  Challenges = {h1}
  Tracked = {"category"}
  MaxWrites = 2
  None = None
SPECIFICATION Spec
SYMMETRY Symmetry
INVARIANT DeletionsAreExplained
PROPERTY LoneEditsKeepOrder
