CONSTANTS
  InitialBackoff = 3
  MaxBackoff = 5
  MaxRetry = 1
  MaxMessages = 1
  MaxFaults = 2
SPECIFICATION FairSpec
PROPERTY TwinFetchedAtBoot
