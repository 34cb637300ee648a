CONSTANTS
  HalfRange = 2
  MaxBody = 2
  MaxUnfragmented = 1
  MaxPending = 2
  MaxTransfer = 2
  FragmentSize = 1
  DescriptorArea = 0
  MaxUnreliable = 1
  MaxAccepted = 2
  MaxReceives = 1
  MaxSends = 1
  MaxEvents = 5
  Yields = TRUE
  Inactivity = 2
  FragmentTimeout = 1
  IdlePoll = 0
  CloseBudget = 1
  CloseInterval = 1
  CloseSends = 1
  CloseSupports = 1
  CloseSize = 1
  Calls = {"submit", "context"}
  Ticks = {1}
  Backlog = 0
  PeerFragments = TRUE
  None = None
SPECIFICATION DriverSpec
INVARIANTS
  ContextualPlanIsCurrent
  AcknowledgementIsOwed
PROPERTIES
  ActiveIsTimely
  SubmittedIsSentOrKept
CHECK_DEADLOCK FALSE
