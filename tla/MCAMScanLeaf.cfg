\* As MCAMScan.cfg, for scans of all entries.
SPECIFICATION ScanSpec
CONSTANTS
  PAGE_SIZE = 64
  attrLength = 4
  Junk = 99
  Pairs <- MCPairs
  Deletable <- MCDeletable
  MaxKeys = 2
  MaxPages = 7
  MaxCopies = 1
  MaxStack = 0
  MaxFixed = 0
  Faults = {}
  Callers = {}
  Scans = {1}
  MaxOpens = 1
  Ops = {"ALL"}
  Sought = {1, 2, 3, 4}
INVARIANTS GoesOnUnfixed
