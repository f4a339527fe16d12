CONSTANTS
  MaxFailures = 0
  MaxLostAcks = 0
  MaxResets = 0
SPECIFICATION Spec
INVARIANT DisabledLedIsOff
