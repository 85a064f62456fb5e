CONSTANTS
  NumMaxHops = 4
  Node = {n1, n2}
  NoNode = NoNode
  Payload <- MCPayload
  AssocData = {d1, d2}
  Routes <- MCRoutes
  MaxDamaged = 1
SPECIFICATION FairSpec
INVARIANTS
  TypeOK
  OnlyGenuineProcessed
  HopsGetTheirData
PROPERTY
  EveryHopIsReached
