CONSTANTS
  fA = fA
  fB = fB
  file1 = file1
  file2 = file2
  junk = junk
  x = x
  NULL = NULL
  Absent = Absent
  Frames <- MCFrames
  Files <- MCFiles
  Data <- MCData
  Zeros = junk
  Junk = junk
  Fds = {0, 1}
  Pages = {0, 1}
  MaxBufs = 2
  Faults = {"malloc", "read", "write"}
  NextFreeWritten <- MCNextFree
SPECIFICATION Spec
SYMMETRY Symmetry
INVARIANTS TypeOK PoolConsistent CleanIsOnDisk
PROPERTIES HeldFramesStay EvictsByStrategy StoreSpec
