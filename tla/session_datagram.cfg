\* A still picture over UDP: losses, reordering, duplicates, strays.
SPECIFICATION Spec
CONSTANTS
  MaxFrames = 3
  MaxFragments = 2
  MaxSkipped = 0
  StillPicture = TRUE
  DataLink = "datagram"
  AckLink = "datagram"
  MaxDuplicates = 1
  MaxExpirations = 1
  StrayPackets <- MCStrayPackets
  StrayAcks <- MCStrayAcks
INVARIANTS
  AssumedIsNewest
  CollectsOneFrame
PROPERTIES
  ImplementsChain
\* The model stops after MaxFrames frames, or when a program throws.
CHECK_DEADLOCK FALSE
