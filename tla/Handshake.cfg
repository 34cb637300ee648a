CONSTANTS
  StopPoints = {"challenge", "connect_request", "connect_response", "netchan_bootstrap"}
  Routes = {"prepared", "provider"}
  Budget = 2
  MaxAttempts = 3
  RetryInterval = 1
  ChallengeTimeout = 3
  ResponseTimeout = 2
  FirstPacketTimeout = 2
SPECIFICATION FairSpec
INVARIANTS ErrorIsExplained MilestonesInStep
PROPERTIES HandshakeEnds KeepsTicket
CHECK_DEADLOCK FALSE
