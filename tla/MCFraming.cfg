SPECIFICATION Spec
CONSTANTS
  Datagrams <- AllDatagrams
  LengthWords <- Lengths
INVARIANTS
  TypeOK
  PartsTile
  
  TriageAgrees
PROPERTY
  Ends
