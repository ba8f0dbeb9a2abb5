SPECIFICATION Spec
CONSTANTS
  CapEntries = 2
  CapPendingBytes = 0
  e1 = e1
  e2 = e2
  Execs <- TwoExecs
  Keys <- ThreeKeys
  Layouts <- Redefined
  MaxCalls = 3
  MaxCrashes = 1
  MaxOps = 1
SYMMETRY ExecSymmetry
INVARIANTS
  TypeOK
  ScanIsolation
  ProjectionIsLearned
  ListedIsStored
  SerialCallsAreReported
