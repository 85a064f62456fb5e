CONSTANTS
  Nil = Nil
  HashPrefix = {h1, h2}
  Cltv = {c1}
  SeqNum = {s1}
  BatchId = {i1}
  BatchObj = {b1}
  Ref = {r1, r2, r3}
SPECIFICATION Spec
SYMMETRY Symmetry
PROPERTY
  StartTwiceIsRefused
