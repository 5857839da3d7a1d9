CONSTANTS
  Tokens = {t1}
  Workers = {w1, w2}
  MaxPays = 1
  MaxAttempts = 3
  EventKinds = {"payment.authorized", "payment.captured"}
  Fidelity = {TRUE}
  SimulationEnabled = FALSE
  MaxRecoveries = 1
SPECIFICATION Spec
PROPERTY
  CapturedIsFinal
CHECK_DEADLOCK FALSE
