\* Two setups and a stop or a run in any order, with a fault and one begun again.
SPECIFICATION FairSpec
CONSTANTS
  dev = dev
  devel = devel
  Procs <- MCProcs
  Containers <- MCContainers
  Does <- MCDoes
  Of <- MCOf
  Begins <- MCBegins
  MaxFaults = 1
  MaxAgain = 1
INVARIANTS TypeOK SetupTakesEffect ServiceInstalled  ReportsState
PROPERTIES RunsEnd
