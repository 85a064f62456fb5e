CONSTANTS
  Nil = Nil
  HashPrefix = {h1, h2}
  Cltv = {c1}
  SeqNum = {s1, s2}
  BatchId = {i1, i2}
  BatchObj = {b1}
  Ref = {r1, r2, r3}
SPECIFICATION Spec
SYMMETRY Symmetry
INVARIANTS
  TypeOK
  BatchesWellFormed
PROPERTIES
  CommitTakesTheWholeBatch
  ImplementsReplayLog
