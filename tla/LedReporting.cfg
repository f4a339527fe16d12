CONSTANTS
  MaxFailures = 3
  MaxLostAcks = 1
  MaxResets = 2
SPECIFICATION FairSpec
INVARIANTS
  TypeOK
  InStepWithoutFailure
PROPERTIES
  StaysInStep
  ReportAcknowledged
