SPECIFICATION Spec
CHECK_DEADLOCK FALSE
CONSTANTS
  MaxImages = 3
  ModelNum = 2
  SaveHistory = 4
  IntervalMax = 600
  MaxActions = 4
  MaxDelay = 100000
  MaxSkippedFrames = 3
  DelayValues = {0, 499, 20000, 50000, 100001}
  FrameSizes = {1400, 1401, 8400}
  MaxPackets = 8
  Bits = 20
  W = 3
  Probabilities = {1, 4}
  Mixed = 1
  MaxBools = 13
  N = 2
  FirstValues <- MCFirstValues
  OtherValues = {0, 1}
  Columns = 2
  Rows = 2
  MVColumns = 3
  MVRows = 2
  SearchResults = {0, 600}
  CensusVectors = {0, 1, 2}
  Quantizers = {69}
  Deltas <- MCDeltas
  Probs = {200}
  FirstLengths = {1, 7, 8, 2047, 2048, 524287, 524288}
  DctLengths = {1, 256, 65536}
  DctCounts = {1, 2}
  Cuts = {0, 1, 2, 3, 4, 5, 9, 10, 11, 300}
  Pictures <- MCPictures
  Realtime = {TRUE, FALSE}
  IvfSizes = {1, 13}
  MaxIvfFrames = 2
  PictureColumns = 2
  PictureRows = 2
  Vectors <- MCVectors
  TrialModes <- MCTrialModes
  WholeModes = {0, 2}
  MaxIntraFrames = 1
  SplitModes <- MCSplitModes
  SplitDifferences <- MCSplitDifferences
  MaxSplitMacroblocks = 2
  FilterHeaders <- MCFilterHeaders
  FilteredMacroblocks <- MCFilteredMacroblocks
  FlatPictures <- MCFlatPictures
  Originals <- MCOriginals
  FlatPredictions = {0, 128, 255}
  YacIndices = {0, 4, 40, 127}
  Edges <- MCEdges
  ReferencePictures <- MCReferencePictures
  SourceBlocks <- MCSourceBlocks
INVARIANTS
  UnitsTypeOK
  BoolsRoundTrip
  EncoderFollowsDecoder
  ResiduesRoundTrip
  PredictionsRoundTrip
  HeadersRoundTrip
  LayoutRoundTrip
  IvfIsWhole
  ChunksFit
PROPERTIES
  ImagesInOrderUnlessOverlapping
  MonaxIsConsistent
  FramesFitTheDelay
  SearchesFind
  PixelsAreRight
