CONSTANTS
  Identities = {"deviceA", "deviceB"}
  MaxAttempts = 2
  MaxFaults = 4
SPECIFICATION FairSpec
CHECK_DEADLOCK FALSE
INVARIANTS
  TypeOK
  RegisteredMeansAssigned
  IdentityStays
  FailedCreateCleansUp
PROPERTY CreateDecided
