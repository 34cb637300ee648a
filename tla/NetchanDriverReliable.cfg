CONSTANTS
  HalfRange = 2
  MaxBody = 4
  MaxUnfragmented = 1
  MaxPending = 3
  MaxTransfer = 3
  FragmentSize = 2
  DescriptorArea = 1
  MaxUnreliable = 1
  MaxAccepted = 4
  MaxReceives = 1
  MaxSends = 1
  MaxEvents = 5
  Yields = FALSE
  Inactivity = 1
  FragmentTimeout = 1
  IdlePoll = 0
  CloseBudget = 1
  CloseInterval = 1
  CloseSends = 1
  CloseSupports = 1
  CloseSize = 1
  Calls = {"prepend"}
  Ticks = {0}
  Backlog = 1
  PeerFragments = TRUE
  None = None
SPECIFICATION DriverSpec
INVARIANTS
  ReleasedIsReported
  EventsFit
  HoldsAcceptedInOrder
  InFlightIsCurrentUnit
CHECK_DEADLOCK FALSE
