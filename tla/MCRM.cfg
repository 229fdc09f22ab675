\* One file of at most two pages of six units, one scan, PF calls that may be
\* refused.
SPECIFICATION FairSpec
CONSTANTS
  PAGE_SIZE = 6
  MaxPages = 2
  a = a
  b = b
  c = c
  Records = {a, b, c}
  Length <- MCLength
  Scans = {s1}
  Faults = {"page"}
  Absent = Absent
  Blank = Blank
  Never = Never
  Gone = Gone
INVARIANTS TypeOK PagesWellFormed AckedHolds ScanComplete ScanOnce SpaceReportTrue
PROPERTIES ScanReturnsLive StoreSpec ScanEnds
