\* Every frame is one packet, and one of them is lost.
SPECIFICATION Spec
CONSTANTS
  MaxFrames = 3
  MaxFragments = 1
  MaxSkipped = 0
  StillPicture = FALSE
  DataLink = "lossy"
  AckLink = "lossy"
  MaxDuplicates = 0
  MaxExpirations = 0
  StrayPackets <- NoStrays
  StrayAcks <- NoStrays
INVARIANTS
  ReceiverSurvivesLoss
\* The model stops after MaxFrames frames, or when a program throws.
CHECK_DEADLOCK FALSE
