\* The same unique name is in use on both buses.
SPECIFICATION Spec
CONSTANTS
  portal = portal
  mpris = mpris
  app = app
  h1 = h1
  c1 = h1
  HostTalk <- Portal
  HostOwn <- Mpris
  ContNames <- App
  HostPeers <- HPeers
  ContPeers <- CPeers
  Requests <- PeerRequests
  Emissions <- PeerEmissions
  MaxSent = 3
  MaxEmitted = 1
  MaxDrops = 0
  NoMsg = NoMsg
INVARIANT
  UniqueDestinationsReachTheirPeer
