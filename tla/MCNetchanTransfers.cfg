CONSTANTS
  HalfRange = 5
  MaxBody = 3
  MaxUnfragmented = 1
  MaxPending = 2
  MaxTransfer = 2
  FragmentSize = 1
  DescriptorArea = 1
  MaxUnreliable = 0
  MaxAccepted = 0
  None = None
  NetLifetime = 1
  SendWindow = 1
  PeerWindow = 2
  Duplicates = TRUE
  MaxPeerUnits = 4
  Pieces <- MCPieces
  Losses = TRUE
  IdlePoll = TRUE
SPECIFICATION TransfersSpec
INVARIANTS
  CorrectFragmentIsTaken
PROPERTY
  FragmentsAreReliable
