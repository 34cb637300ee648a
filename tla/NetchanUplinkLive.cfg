CONSTANTS
  HalfRange = 6
  MaxBody = 3
  MaxUnfragmented = 1
  MaxPending = 2
  MaxTransfer = 2
  FragmentSize = 1
  DescriptorArea = 1
  MaxUnreliable = 0
  MaxAccepted = 2
  None = None
  NetLifetime = 1
  SendWindow = 2
  PeerWindow = 1
  Duplicates = FALSE
  MaxPeerUnits = 0
  Losses = TRUE
  IdlePoll = TRUE
SPECIFICATION FairChannelSpec
PROPERTY
  EverythingIsDelivered
