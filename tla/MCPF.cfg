\* One file of up to three pages with two contents, through a pool of one
\* frame, so that every request of another page evicts.
CONSTANTS
  fA = fA
  file1 = file1
  junk = junk
  x = x
  NULL = NULL
  Absent = Absent
  Frames = {fA}
  Files = {file1}
  Data = {junk, x}
  Zeros = junk
  Junk = junk
  Fds = {0}
  Pages = {0, 1, 2}
  MaxBufs = 1
  Faults = {"malloc", "read", "write", "close"}
SPECIFICATION Spec
CONSTRAINT LRUOnly
INVARIANTS TypeOK PoolConsistent FreeListExact HeldAreUsed BufferedPagesOpen SkipsOnlyFree
PROPERTY FileSpec
