CONSTANTS
  Sessions = {s1}
  Workers = {w1, w2}
  Tokens = {t1, t2, t3}
  Totals = {0, 1}
  Ceilings = {1, 3}
  MaxRejections = 1
  MaxOfferBudget = 1
  MaxResults = 1
SPECIFICATION CommerceSpec
SYMMETRY Symmetry
CONSTRAINTS
  PaidAtRest
  EmptyCartsAlone
INVARIANTS
  CommerceTypeOK
  OrdersAreBacked
  OrdersWithinBudget
  ResultsWithinBudget
  ResultsAreAuthorised
