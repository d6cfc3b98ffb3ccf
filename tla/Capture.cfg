\* Two paths, one write by others; or one path and two writes.
SPECIFICATION MCSpec
CONSTANTS
  c1 = c1
  c2 = c2
  c3 = c3
  link = link
  p1 = p1
  p2 = p2
  none = none
  Path = {p1, p2}
  Content = {c1, c2, c3}
  Irregular = {link}
  Absent = none
  MaxEdits = 2
  Mode = {"live", "clean", "none"}
SYMMETRY Interchangeable
INVARIANT TypeOK
INVARIANT TestedIsRecorded
INVARIANT StagedIsRecorded
INVARIANT HeadStable
INVARIANT DriftIsReal
