\* Two callers, one of them not the daemon's user, over two runs of the daemon.
SPECIFICATION FairSpec
CONSTANTS
  a = a
  b = b
  Clients <- TwoClients
  Owner <- OneClient
  Requests <- MCRequests
  Linked = TRUE
  MaxRuns = 2
  MaxFaults = 1
INVARIANTS
  TypeOK
  ClientLearnsTruth
  OneAnswer
PROPERTIES
  ClientsEnd
  HandlersEnd
  CommandsReaped
