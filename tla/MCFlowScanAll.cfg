SPECIFICATION Spec
CONSTANTS
  CapEntries = 2
  CapPendingBytes = 3
  Rows <- AllRows
  Stamps <- TwoStamps
  RestrictTo = "Any"
  HasStorage = TRUE
  MaxRows = 3
INVARIANTS
  TypeOK
  ExactlyOneFate
  NothingDecodableIsBuffered
  BufferAccounting
  LayoutsWithinCap
  CachedLayoutIsLatest
  DecodedKeepsVersion
PROPERTIES
  DecodedWithOwnTemplate
  OnlyOldestIsEvicted
  StatsSurviveRedefinition
  ScanDrains
  KeepsPromise
