\* Every kind of request, conversations with peers, both buses emitting, links that
\* stay up.
SPECIFICATION Spec
CONSTANTS
  portal = portal
  mpris = mpris
  app = app
  h1 = h1
  c1 = c1
  HostTalk <- Portal
  HostOwn <- Mpris
  ContNames <- App
  HostPeers <- HPeers
  ContPeers <- CPeers
  Requests <- MCRequests
  Emissions <- MCEmissions
  MaxSent = 3
  MaxEmitted = 1
  MaxDrops = 0
  NoMsg = NoMsg
INVARIANTS
  TypeOK
  AtMostOneAnswer
  AnsweredByOwner
  RoutesPeers
ACTION_CONSTRAINT
  ThirdIsToPeer
