\* The picture may stand still, so that a state comes again.
SPECIFICATION Spec
CONSTANTS
  MaxFrames = 5
  MaxFragments = 2
  MaxSkipped = 0
  StillPicture = TRUE
  DataLink = "lossy"
  AckLink = "lossy"
  MaxDuplicates = 0
  MaxExpirations = 1
  StrayPackets <- NoStrays
  StrayAcks <- NoStrays
INVARIANTS
  StoredIsListed
  SavedIsListed
  CurrentIsNewest
\* The model stops after MaxFrames frames, or when a program throws.
CHECK_DEADLOCK FALSE
