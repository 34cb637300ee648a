CONSTANTS
  Positions <- MCPositions
  Moves <- MCMoves
  Kernel <- MCKernel
  Spawn = 0
  MaxDelay = 3
  MaxReplay = 2
  Epsilon = 0
  SmallError = 1
  LargeError = 3
  MaxError = 2
  EyeScale = 2
  Looks <- MCLooks
  Duration = 2
  MaxOffset = 3
  MaxCameraRevision = 4
  None = None
  Still = 0
  Intents <- MCIntents
  MaxBatch = 2
  MaxSequence = 4
  AuthorityDelay = 1
  MaxQueue = 3
  Scenarios <- MCScenarios
  Trigger = 1
  SmallDelta = 1
  LargeDelta = 2
  Destination = 4
  MaxSession = 1
SPECIFICATION Spec
INVARIANTS InStep AuthorityIsUnderstood ShowsThePlayer
PROPERTIES CameraNeverGoesBack KeepsPromise
CHECK_DEADLOCK FALSE
