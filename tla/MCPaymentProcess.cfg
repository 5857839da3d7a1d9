CONSTANTS
  Tokens = {t1}
  Workers = {w1}
  MaxPays = 2
  MaxAttempts = 2
  EventKinds = {"payment.failed", "payment.captured"}
  Fidelity = {TRUE, FALSE}
  SimulationEnabled = TRUE
  MaxRecoveries = 2
SPECIFICATION OperatedSpec
PROPERTIES
  IsPaymentLife
  StatusChangesAreLegal
  ProcessedStaysProcessed
  EventsSettle
  NeverSilentlyDropped
  PaidOrdersSettle
CHECK_DEADLOCK FALSE
