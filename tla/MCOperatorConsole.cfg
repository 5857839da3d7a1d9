CONSTANTS
  Window = 2
  Limits = {1, 2}
  MaxTime = 2
  Writers = {w1}
  Streams = {s1}
  Batch = 2
  MaxRows = 3
  Tickets = {k1, k2}
  LoginTTL = 1
  TicketTTL = 1
SPECIFICATION FairSpec
INVARIANTS
  TypeOK
  WithinRate
  NothingSkipped
  TicketsOpenOneStream
PROPERTY
  EveryRowArrives
CHECK_DEADLOCK FALSE
