CONSTANTS
  Streams <- AllStreams
  makeCRC <- CRC
  PackageSize = 4
  Null = Null
SPECIFICATION Spec
\* The stream ends.
CHECK_DEADLOCK FALSE
INVARIANTS
  TypeOK
  
PROPERTY DeliversFrames
