CONSTANTS
  HalfRange = 2
  MaxBody = 1
  MaxUnfragmented = 1
  MaxPending = 2
  MaxTransfer = 2
  FragmentSize = 1
  DescriptorArea = 0
  MaxUnreliable = 1
  MaxAccepted = 2
  MaxReceives = 1
  MaxSends = 1
  MaxEvents = 5
  Yields = FALSE
  Inactivity = 1
  FragmentTimeout = 1
  IdlePoll = 0
  CloseBudget = 4
  CloseInterval = 1
  CloseSends = 2
  CloseSupports = 1
  CloseSize = 1
  Calls = {"cancel", "close", "graceful", "disconnect"}
  Ticks = {1}
  Backlog = 0
  PeerFragments = FALSE
  None = None
SPECIFICATION DriverSpec
INVARIANTS
  OutcomeIsHonest
PROPERTIES
  OutcomeIsSettled
  SupportMakesRoom
