\* Leaves of two keys or five cells' room, internal nodes of two keys.
SPECIFICATION Spec
CONSTANTS
  PAGE_SIZE = 58
  attrLength = 4
  Junk = 0
  Pairs <- MCPairs
  Deletable <- MCDeletable
  MaxKeys = 2
  MaxPages = 11
  MaxCopies = 1
  MaxStack = 0
  MaxFixed = 1
  Faults = {"page"}
  Callers = {}
INVARIANTS TypeOK LeavesSound TreeSound ChainInOrder AckedFound
