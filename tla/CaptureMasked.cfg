\* One path, nobody else writes, live checks.
SPECIFICATION Spec
CONSTANTS
  c1 = c1
  c2 = c2
  link = link
  p1 = p1
  p2 = p2
  none = none
  Path = {p1}
  Content = {c1, c2}
  Irregular = {link}
  Absent = none
  MaxEdits = 0
  Mode = {"live"}
SYMMETRY Interchangeable
INVARIANT MaskedEditsSurface
