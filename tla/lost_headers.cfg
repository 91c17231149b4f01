\* The end of a frame is lost, and the receiver accepts what is left.
SPECIFICATION LayoutSpec
CONSTANTS
  FirstLengths = {7, 8}
  DctLengths = {1}
  DctCounts = {1, 2}
  Cuts = {1, 4, 9, 11}
INVARIANTS
  LostHeadersAreConcealed
\* The end is lost once.
CHECK_DEADLOCK FALSE
