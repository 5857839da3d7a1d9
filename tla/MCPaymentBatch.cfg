CONSTANTS
  Tokens = {t1, t2}
  Workers = {w1}
  MaxPays = 1
  MaxAttempts = 1
  EventKinds = {}
  Fidelity = {TRUE}
  SimulationEnabled = FALSE
  MaxRecoveries = 1
SPECIFICATION SweptSpec
PROPERTIES
  NeverSilentlyDropped
  PaidOrdersSettle
CHECK_DEADLOCK FALSE
