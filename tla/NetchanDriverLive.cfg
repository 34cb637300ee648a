CONSTANTS
  HalfRange = 2
  MaxBody = 2
  MaxUnfragmented = 1
  MaxPending = 2
  MaxTransfer = 2
  FragmentSize = 1
  DescriptorArea = 0
  MaxUnreliable = 1
  MaxAccepted = 0
  MaxReceives = 1
  MaxSends = 1
  MaxEvents = 5
  Yields = FALSE
  Inactivity = 2
  FragmentTimeout = 1
  IdlePoll = 1
  CloseBudget = 2
  CloseInterval = 1
  CloseSends = 1
  CloseSupports = 1
  CloseSize = 1
  Calls = {"context", "graceful"}
  Ticks = {1}
  Backlog = 5
  PeerFragments = FALSE
  None = None
SPECIFICATION FairDriverSpec
PROPERTIES
  AcknowledgementIsSent
  IdleChannelIsPolled
  GracefulCloseEnds
CHECK_DEADLOCK FALSE
