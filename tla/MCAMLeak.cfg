\* As MCAM.cfg, for callers that delete entries that are not there.
SPECIFICATION Spec
CONSTANTS
  PAGE_SIZE = 58
  attrLength = 4
  Junk = 0
  Pairs <- MCPairs
  Deletable <- MCDeletable
  MaxKeys = 2
  MaxPages = 11
  MaxCopies = 1
  MaxStack = 1
  MaxFixed = 1
  Faults = {}
  Callers = {"absent"}
INVARIANTS NothingLeft
