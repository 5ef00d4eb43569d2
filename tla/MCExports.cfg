CONSTANTS
  Exports = {"e1", "e2", "e3"}
  By <- MCBy
  Size <- MCSize
  Quota = 5
  MaxPending = 3
  MaxActive = 1
  MaxOps = 3
SPECIFICATION Spec
INVARIANT RetainedWithinQuota
CHECK_DEADLOCK FALSE
