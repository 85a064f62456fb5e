CONSTANTS
  Formats = {"Circuit"}
  NumMaxHops = 3
  NumReplays = 3
  KeySize = 3
  SecretSize = 3
  ByteRange = 5
  ShortReads = {"Circuit"}
  Cuts = {}
SPECIFICATION Spec
CHECK_DEADLOCK FALSE
INVARIANT
  CircuitFromStream
