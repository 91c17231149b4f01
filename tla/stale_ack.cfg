\* Packets and acks are both reordered.
SPECIFICATION Spec
CONSTANTS
  MaxFrames = 4
  MaxFragments = 2
  MaxSkipped = 0
  StillPicture = FALSE
  DataLink = "datagram"
  AckLink = "datagram"
  MaxDuplicates = 0
  MaxExpirations = 0
  StrayPackets <- NoStrays
  StrayAcks <- NoStrays
INVARIANTS
  SenderFindsEncoder
\* The model stops after MaxFrames frames, or when a program throws.
CHECK_DEADLOCK FALSE
