\* Packets are lost; acks are lost and reordered.
SPECIFICATION FairSpec
CONSTANTS
  MaxFrames = 5
  MaxFragments = 2
  MaxSkipped = 1
  StillPicture = FALSE
  DataLink = "lossy"
  AckLink = "datagram"
  MaxDuplicates = 0
  MaxExpirations = 1
  StrayPackets <- NoStrays
  StrayAcks <- NoStrays
INVARIANTS
  SessionTypeOK
  SenderFindsEncoder
  ListedIsSaved
  AckedWasSent
PROPERTIES
  AllFramesSent
  AcksNeverGoBack
\* The model stops after MaxFrames frames, or when a program throws.
CHECK_DEADLOCK FALSE
