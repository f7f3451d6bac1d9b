\* Calls to both buses while any one connection may be lost, and what must
\* eventually happen.
SPECIFICATION FairSpec
CONSTANTS
  portal = portal
  mpris = mpris
  app = app
  h1 = h1
  c1 = c1
  HostTalk <- Portal
  HostOwn <- Mpris
  ContNames <- App
  HostPeers <- HPeers
  ContPeers <- CPeers
  Requests <- CallsOnly
  Emissions <- MCEmissions
  MaxSent = 2
  MaxEmitted = 0
  MaxDrops = 1
  NoMsg = NoMsg
INVARIANTS
  TablesMatchDebts
  AnswerInv
  CleanExit
PROPERTIES
  KeepsPromise
  EveryCallAnswered
  TeardownCompletes
