CONSTANTS
  InitialBackoff = 3
  MaxBackoff = 5
  MaxRetry = 1
  MaxMessages = 2
  MaxFaults = 2
SPECIFICATION Spec
INVARIANT NoCommandLeftBehind
