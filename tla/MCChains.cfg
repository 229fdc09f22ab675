\* Four frames, and two buckets that three pages each hash to.
SPECIFICATION Spec
CONSTANTS
  f1 = f1
  f2 = f2
  f3 = f3
  f4 = f4
  e1 = e1
  e2 = e2
  e3 = e3
  e4 = e4
  NULL = NULL
  Fds = {0, 1}
  Pages = {0, 1, 2}
  Frames <- MCFrames
  Entries <- MCEntries
  MaxBufs = 4
  HashSize = 2
SYMMETRY Symmetry
INVARIANTS TypeOK ListSound ChainsSound NothingPassed
PROPERTY IndexSpec
