\* Nothing is lost or reordered.
SPECIFICATION FairSpec
CONSTANTS
  MaxFrames = 5
  MaxFragments = 2
  MaxSkipped = 1
  StillPicture = TRUE
  DataLink = "reliable"
  AckLink = "reliable"
  MaxDuplicates = 0
  MaxExpirations = 1
  StrayPackets <- NoStrays
  StrayAcks <- NoStrays
INVARIANTS
  InSync
PROPERTIES
  LastFrameDecoded
\* The model stops after MaxFrames frames, or when a program throws.
CHECK_DEADLOCK FALSE
