SPECIFICATION Spec
CONSTANTS
  Base = 2
  None = None
  Micros = 6
  Millis = 2
  NtpOffset = 5
  MaxFields = 3
  MaxWork = 6
  Devices <- TwoDevices
  Readings <- SomeReadings
  Fields <- AllFields
  Samples <- AllSamples
  Records <- AllRecords
INVARIANTS
  CleanRowsAreInPlace
