\* A container as it is installed.
SPECIFICATION Spec
CONSTANTS
  a = a
  b = b
  Clients <- OneClient
  Owner <- OneClient
  Requests <- MCRequests
  Linked = FALSE
  MaxRuns = 1
  MaxFaults = 0
PROPERTY
  OnlyIsolatedAreTold
