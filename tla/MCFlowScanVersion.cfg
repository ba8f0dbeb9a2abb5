SPECIFICATION Spec
CONSTANTS
  CapEntries = 2
  CapPendingBytes = 4
  Rows <- ClashRows
  Stamps <- OneStamp
  RestrictTo = "Any"
  HasStorage = TRUE
  MaxRows = 3
INVARIANT
  FlowVersionIsWireVersion
