CONSTANTS
  Sessions = {s1}
  Workers = {w1}
  Tokens = {t1, t2}
  Totals = {1, 2}
  Ceilings = {1, 2}
  MaxRejections = 2
SPECIFICATION Spec
INVARIANT
  RejectionsFreeze
