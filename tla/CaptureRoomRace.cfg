\* One path, one write by others, clean room.
SPECIFICATION Spec
CONSTANTS
  c1 = c1
  c2 = c2
  p1 = p1
  p2 = p2
  none = none
  Path = {p1}
  Content = {c1, c2}
  Irregular = {}
  Absent = none
  MaxEdits = 1
  Mode = {"clean"}
SYMMETRY Interchangeable
INVARIANT RoomHoldsCandidate
