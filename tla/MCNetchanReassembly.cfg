CONSTANTS
  ChunkSize = 2
  MaxPayload = 2
  MaxSize = 5
  MaxFragments = 3
  MaxRanges = 3
  Timeout = 2
  MaxTime = 3
  MaxId = 3
  MaxRevision = 4
  Byte = {0, 1, 2}
  Zero = 0
  Payload <- MCPayload
  None = None
SPECIFICATION Spec
INVARIANTS
  ImageIsConsistent
  MissingFragmentIsTaken
PROPERTY
  TransfersAreAssembled
