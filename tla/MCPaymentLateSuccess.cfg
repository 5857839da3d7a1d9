CONSTANTS
  Tokens = {t1}
  Workers = {w1}
  MaxPays = 2
  MaxAttempts = 2
  EventKinds = {"payment.failed", "payment.captured"}
  Fidelity = {TRUE}
  SimulationEnabled = FALSE
  MaxRecoveries = 1
SPECIFICATION DiligentSpec
PROPERTY
  PaidOrdersAreCaptured
CHECK_DEADLOCK FALSE
