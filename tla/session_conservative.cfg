\* Conservative mode, once entered, outlasts the session.
SPECIFICATION Spec
CONSTANTS
  MaxFrames = 6
  MaxFragments = 2
  MaxSkipped = 0
  StillPicture = FALSE
  DataLink = "lossy"
  AckLink = "lossy"
  MaxDuplicates = 0
  MaxExpirations = 0
  StrayPackets <- NoStrays
  StrayAcks <- NoStrays
INVARIANTS
  ConservativeFrameIsDecodable
PROPERTIES
  ConservativeSourceIsHeld
\* The model stops after MaxFrames frames, or when a program throws.
CHECK_DEADLOCK FALSE
