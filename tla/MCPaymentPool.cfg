CONSTANTS
  Tokens = {t1}
  Workers = {w1, w2}
  MaxPays = 1
  MaxAttempts = 2
  EventKinds = {"payment.authorized", "payment.captured", "payment.failed"}
  Fidelity = {TRUE, FALSE}
  SimulationEnabled = FALSE
  MaxRecoveries = 1
SPECIFICATION Spec
SYMMETRY Symmetry
INVARIANTS
  TypeOK
  LedgerBeforeGateway
  ClaimsAreBacked
  IdsAreReal
  DeadLetterIsQueued
  QueuedAfterAllAttempts
  ProcessedEventsMatch
PROPERTIES
  IdsWriteOnce
  IsOrderDesk
CHECK_DEADLOCK FALSE
