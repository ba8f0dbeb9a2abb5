SPECIFICATION Spec
CONSTANTS
  CapEntries = 2
  CapPendingBytes = 0
  e1 = e1
  e2 = e2
  Execs <- OneExec
  Keys <- TwoKeys
  Layouts <- OneLayout
  MaxCalls = 3
  MaxCrashes = 0
  MaxOps = 2
INVARIANT
  UseCountIsReported
