\* Sources of up to four bytes in chunks of two, one damaged record.
CONSTANTS
  ChunkSize = 2
  MaxSource = 4
  MaxFaults = 1
SPECIFICATION FairSpec
INVARIANTS
  ContainerShape
  AcceptedMeansIntact
  NoFalseAlarm
PROPERTIES
  ImplementsTransfer
  CallsReturn
\* A stream is written once and read once, then everything stops.
CHECK_DEADLOCK FALSE
