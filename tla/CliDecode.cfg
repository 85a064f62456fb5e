CONSTANTS
  Node = {n1, n2}
  NoNode = NoNode
  NumMaxHops = 3
SPECIFICATION Spec
INVARIANT
  RightKeyDecodes
