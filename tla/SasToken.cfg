CONSTANTS
  BlockSize = 64
  LengthSize = 8
  DigestSize = 32
  Keys <- MCKeys
  TextLengths = {1, 54, 55, 56, 57, 63, 64, 119}
SPECIFICATION Spec
CHECK_DEADLOCK FALSE
INVARIANTS
  TypeOK
  NothingLost
  SignsAsDefined
