CONSTANTS
  ServerCount = 4
  MaxFaults = 2
SPECIFICATION FairSpec
PROPERTY KeepsSynchronizing
CHECK_DEADLOCK FALSE
