CONSTANTS
  NumMaxHops = 3
  Node = {n1, n2}
  First = p1
  Payment = {p1, p2}
  PathsOf <- MCPathsOf
  Message = {1, 2}
  SizeOf <- MCSizeOf
  DataCells = 2
  MaxFaults = 1
SPECIFICATION FairSpec
CHECK_DEADLOCK FALSE
INVARIANTS
  TypeOK
  SecretsAgree
PROPERTIES
  ImplementsFailureReport
  EveryFailureIsReported
