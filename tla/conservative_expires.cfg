\* Conservative mode runs out once and is entered again.
SPECIFICATION Spec
CONSTANTS
  MaxFrames = 7
  MaxFragments = 2
  MaxSkipped = 0
  StillPicture = FALSE
  DataLink = "lossy"
  AckLink = "lossy"
  MaxDuplicates = 0
  MaxExpirations = 1
  StrayPackets <- NoStrays
  StrayAcks <- NoStrays
PROPERTIES
  ConservativeSourceIsHeld
\* The model stops after MaxFrames frames, or when a program throws.
CHECK_DEADLOCK FALSE
