SPECIFICATION Spec
CONSTANTS
  r1 = r1
  r2 = r2
  r3 = r3
  Requests = {r1, r2, r3}
  MaxFiles = 4
SYMMETRY Slots
\* Once the owner is deleted and nothing is being served, nothing happens.
CHECK_DEADLOCK FALSE
INVARIANTS
  PictureStored
  NothingLeftAlone
