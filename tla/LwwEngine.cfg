SPECIFICATION Spec
CONSTANTS
  p1 = p1
  d1 = d1
  r1 = r1
  r2 = r2
  NoOp = NoOp
  Self = 1
  Task = {p1, d1, r1, r2}
  KindOf <- MCKindOf
  Batch <- MCBatch
INVARIANTS
  TypeOK
  StoreMatchesWinner
  LocalWriteWins
  LogHoldsWinner
  QuietStateIsNewest
