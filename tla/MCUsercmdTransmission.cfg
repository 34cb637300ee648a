CONSTANTS
  Configurations <- MCConfigurations
  MaxEntries = 3
  Protected = 1
  DesiredBackups = 1
  MaxNew = 2
  MaxPerUpdate = 2
  MaxSequence = 4
  Timeout = 2
  Capacities = {0, 1, 3}
  MaxImpulses = 1
  None = None
SPECIFICATION FairSpec
INVARIANTS
  SentIsAccounted
  PreparedIsCurrent
  PacketIsARun
  EventsAreReported
  OneShotOnce
PROPERTIES
  CommandsLeave
CHECK_DEADLOCK FALSE
