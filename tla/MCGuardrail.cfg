CONSTANTS
  Sessions = {s1}
  Workers = {w1, w2}
  Tokens = {t1, t2}
  Totals = {0, 1, 2}
  Ceilings = {1, 2}
  MaxRejections = 2
SPECIFICATION FairSpec
INVARIANTS
  TypeOK
  SpentWithinBudget
  TokensAreSlices
  PendingSlices
  FreezeLag
PROPERTIES
  FrozenIsNeverCharged
  IsSpendAuthority
  StreakFreezes
