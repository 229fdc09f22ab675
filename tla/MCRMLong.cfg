\* As MCRM.cfg, for what README.md says of a record's length.
SPECIFICATION Spec
CONSTANTS
  PAGE_SIZE = 6
  MaxPages = 2
  a = a
  b = b
  c = c
  Records = {a, b, c}
  Length <- MCLength
  Scans = {s1}
  Faults = {"page"}
  Absent = Absent
  Blank = Blank
  Never = Never
  Gone = Gone
INVARIANTS AnyLengthHolds
