CONSTANTS
  HalfRange = 2
  MaxBody = 4
  MaxUnfragmented = 1
  MaxPending = 3
  MaxTransfer = 3
  FragmentSize = 2
  DescriptorArea = 1
  MaxUnreliable = 0
  MaxAccepted = 3
  MaxRevision = 3
  None = None
SPECIFICATION PlansSpec
INVARIANTS
  PlansAgreeWithRevision
PROPERTY
  PreparedOperationsAreAtomic
