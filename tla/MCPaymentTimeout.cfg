CONSTANTS
  Tokens = {t1}
  Workers = {w1}
  MaxPays = 1
  MaxAttempts = 3
  EventKinds = {}
  Fidelity = {TRUE}
  SimulationEnabled = FALSE
  MaxRecoveries = 1
SPECIFICATION Spec
INVARIANT
  FailureIsNotInferred
CHECK_DEADLOCK FALSE
