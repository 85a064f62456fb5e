CONSTANTS
  Formats = {"OnionPacket", "HopData", "OnionErrorEncrypter", "Circuit", "ReplaySet"}
  NumMaxHops = 8
  NumReplays = 3
  KeySize = 3
  SecretSize = 3
  ByteRange = 10
  ShortReads = {"OnionPacket", "HopData", "OnionErrorEncrypter", "ReplaySet"}
  Cuts = {"OnionPacket", "HopData", "OnionErrorEncrypter", "ReplaySet"}
SPECIFICATION Spec
CHECK_DEADLOCK FALSE
INVARIANTS
  OkMeansExact
  WholeIsDecoded
