CONSTANTS
  MaxFailures = 1
  MaxLostAcks = 0
  MaxResets = 0
SPECIFICATION Spec
INVARIANT TwinShowsLED
