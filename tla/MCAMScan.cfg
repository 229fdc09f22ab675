\* Leaves of up to three keys, one scan.
SPECIFICATION ScanSpec
CONSTANTS
  PAGE_SIZE = 64
  attrLength = 4
  Junk = 99
  Pairs <- MCPairs
  Deletable <- MCDeletable
  MaxKeys = 2
  MaxPages = 7
  MaxCopies = 1
  MaxStack = 0
  MaxFixed = 0
  Faults = {"page"}
  Callers = {}
  Scans = {1}
  MaxOpens = 1
  Ops = {"ALL", "EQUAL", "LESS_THAN", "GREATER_THAN", "LESS_THAN_EQUAL", "GREATER_THAN_EQUAL", "INVALID"}
  Sought = {2, 3}
INVARIANTS ScanTypeOK SureAnswersSatisfy ScanComplete SureEnds OneLeafLeavesNothing
