CONSTANTS
  c1 = c1
  c2 = c2
  Capacities = {0, 1, 3}
  BatchLimit = 2
  Closers <- MCClosers
  MaxEvents = 5
SPECIFICATION TelemetrySpec
INVARIANTS
  EventsKeepTheirOrder
  LossIsReported
  ShutdownDrains
PROPERTIES
  QueueIsWorkedOff
  ShutdownReturns
CHECK_DEADLOCK FALSE
