CONSTANTS
  Nil = Nil
  h1 = h1
  h2 = h2
  pA = pA
  pB = pB
  pBad = pBad
  i1 = i1
  i2 = i2
  HashPrefix = {h1, h2}
  Cltv = {c1}
  SeqNum = {0, 1}
  BatchId = {i1, i2}
  Durable = TRUE
  Packet = {pA, pB, pBad}
  HashOf <- MCHashOf
  Verdict <- MCVerdict
  Htlc = {x1}
  Tx = {t1}
  Nels = {1, 2}
  Contents <- MCContents
SPECIFICATION Spec
INVARIANTS
  TypeOK
  OneUsePerPrefix
  ActedWereGranted
  WinnersAreTold
  PositionsGetTheirPacket
  CommitIsIdempotent
