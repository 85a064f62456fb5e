CONSTANTS
  NumMaxHops = 3
  Node = {n1, n2}
  NoNode = NoNode
  Payload <- MCPayload
  AssocData = {d1, d2}
  Routes <- MCRoutes
  MaxDamaged = 1
  MaxCrashes = 2
SPECIFICATION NetFairSpec
INVARIANTS
  ActsOnce
  LoggedWereAccepted
PROPERTY
  EveryHopActsUnlessLost
