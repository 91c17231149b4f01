\* The sender: two frames of two packets, in each mode; the camera has two
\* buffers.  The receiver: three frames, shown or hidden.
SPECIFICATION FairPrograms
CONSTANTS
  Millisecond = 2
  EmptyTimeout = 1
  MaxOverdue = 2
  NumBuffers = 2
  Pictures = 4
  MaxFrames = 2
  MaxFragments = 2
  Delays <- MCDelays
  MaxDecoded = 3
  Headers <- MCHeaders
INVARIANTS
  LoopTypeOK
  OneToken
  JobsAreHandedOver
  NeverBusyWaits
  PacketsInOrder
  ThreadsTypeOK
  RastersAreSafe
PROPERTIES
  PacketsLeaveOnTime
  PicturesFlow
  ThreadsGoOn
\* A program that has ended takes no step; the receiver may wait for packets
\* for ever.
CHECK_DEADLOCK FALSE
