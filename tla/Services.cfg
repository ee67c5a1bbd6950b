SPECIFICATION FairSpec
CONSTANTS
  HealthInterval = 6
  RecoveryInterval = 2
  Stability = 1
  Timeout = 1
  Threshold = 3
  Off = Off
  MaxRetries = 1
  MaxLogins = 2

INVARIANT
  PollsWhileOnline
  ChecksKeepPace
PROPERTY
  OfflineIsEarned
  RecoversWithTheNetwork
  NoticesTheLoss
CHECK_DEADLOCK FALSE
