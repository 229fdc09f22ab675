\* As MCAM.cfg, for what an acknowledged insertion promises when PF refuses nothing.
SPECIFICATION Spec
CONSTANTS
  PAGE_SIZE = 58
  attrLength = 4
  Junk = 0
  Pairs <- MCPairs
  Deletable <- MCDeletable
  MaxKeys = 2
  MaxPages = 11
  MaxCopies = 1
  MaxStack = 0
  MaxFixed = 0
  Faults = {}
  Callers = {}
INVARIANTS EntriesFound
