CONSTANTS
  Nil = Nil
  HashPrefix = {h1, h2}
  Cltv = {c1}
  SeqNum = {s1, s2, s3}
  Duplicate = s3
  BatchId = {i1}
  BatchOf <- MCBatchOf
  Caller = {a, b}
SPECIFICATION Spec
SYMMETRY Symmetry
CHECK_DEADLOCK FALSE
INVARIANTS
  TypeOK
  RefusalsAreTrue
